---- MODULE Spec2Model ----
(***************************************************************************)
(* The TypeScript exporter of specta (src/src/lang/ts.rs): the export      *)
(* configuration, the recursive converter `datatype`, the declaration      *)
(* wrapper `export_datatype`, `object_field_to_ts` and `sanitise_name`.    *)
(*                                                                         *)
(* Rust strings are TLA+ strings (TLC evaluates Len, SubSeq and \o on      *)
(* them); a Result is a record [ok, val] or [ok, err]; an Option is        *)
(* [some] or [some, val].                                                  *)
(***************************************************************************)
EXTENDS Integers, Sequences, FiniteSets, TLC

\* conf    the ExportConfiguration being built and then passed to the call
\* def     the DataTypeExt handed to the exporter (its inner node to datatype)
\* call    the entry point that was called, "none" before the call
\* args    the (type name, field) or (type name, field name) arguments of
\*         object_field_to_ts and sanitise_name, drawn from def
\* result  the Result the call returned
VARIABLES conf, def, call, args, result

vars == <<conf, def, call, args, result>>

(***************************************************************************)
(* Result and Option values.                                               *)
(***************************************************************************)
Ok(v) == [ok |-> TRUE, val |-> v]
Err(e) == [ok |-> FALSE, err |-> e]
None == [some |-> FALSE]
Some(v) == [some |-> TRUE, val |-> v]

(***************************************************************************)
(* TsExportError.                                                          *)
(***************************************************************************)
WithCtx(ty_name, field_name, err) ==
    [kind |-> "WithCtx", ty_name |-> ty_name, field_name |-> field_name, err |-> err]
BigIntForbidden == [kind |-> "BigIntForbidden"]
AnonymousObject == [kind |-> "AnonymousObject"]
AnonymousEnum == [kind |-> "AnonymousEnum"]
ForbiddenTypeName(name) == [kind |-> "ForbiddenTypeName", name |-> name]
ForbiddenFieldName(ty, name) == [kind |-> "ForbiddenFieldName", ty |-> ty, name |-> name]
CannotExport(d) == [kind |-> "CannotExport", def |-> d]
InternalError(msg) == [kind |-> "InternalError", msg |-> msg]
Other(msg) == [kind |-> "Other", msg |-> msg]

(***************************************************************************)
(* String and iterator helpers of the Rust standard library.               *)
(***************************************************************************)
\* A string of the model is a sequence of UTF-16 units, and a character
\* beyond the Basic Multilingual Plane takes two of them, a high surrogate
\* and a low one.  SurrogatePairs holds one such character for every high
\* surrogate a string of the model can hold (low byte of 80 or more).
SurrogatePairs ==
    "𰂀𰒀𰢀𰲀𱂀𱒀𱢀𱲀𲂀𲒀𲢀𲲀𳂀𳒀𳢀𳲀𴂀𴒀𴢀𴲀𵂀𵒀𵢀𵲀𶂀𶒀𶢀𶲀𷂀𷒀𷢀𷲀𸂀𸒀𸢀𸲀𹂀𹒀𹢀𹲀𺂀𺒀𺢀𺲀𻂀𻒀𻢀𻲀𼂀𼒀𼢀𼲀𽂀𽒀𽢀𽲀𾂀𾒀𾢀𾲀𿂀𿒀𿢀𿲀"
    \o "񀂀񀒀񀢀񀲀񁂀񁒀񁢀񁲀񂂀񂒀񂢀񂲀񃂀񃒀񃢀񃲀񄂀񄒀񄢀񄲀񅂀񅒀񅢀񅲀񆂀񆒀񆢀񆲀񇂀񇒀񇢀񇲀񈂀񈒀񈢀񈲀񉂀񉒀񉢀񉲀񊂀񊒀񊢀񊲀񋂀񋒀񋢀񋲀񌂀񌒀񌢀񌲀񍂀񍒀񍢀񍲀񎂀񎒀񎢀񎲀񏂀񏒀񏢀񏲀"
    \o "񰂀񰒀񰢀񰲀񱂀񱒀񱢀񱲀񲂀񲒀񲢀񲲀񳂀񳒀񳢀񳲀񴂀񴒀񴢀񴲀񵂀񵒀񵢀񵲀񶂀񶒀񶢀񶲀񷂀񷒀񷢀񷲀񸂀񸒀񸢀񸲀񹂀񹒀񹢀񹲀񺂀񺒀񺢀񺲀񻂀񻒀񻢀񻲀񼂀񼒀񼢀񼲀񽂀񽒀񽢀񽲀񾂀񾒀񾢀񾲀񿂀񿒀񿢀񿲀"
    \o "򀂀򀒀򀢀򀲀򁂀򁒀򁢀򁲀򂂀򂒀򂢀򂲀򃂀򃒀򃢀򃲀򄂀򄒀򄢀򄲀򅂀򅒀򅢀򅲀򆂀򆒀򆢀򆲀򇂀򇒀򇢀򇲀򈂀򈒀򈢀򈲀򉂀򉒀򉢀򉲀򊂀򊒀򊢀򊲀򋂀򋒀򋢀򋲀򌂀򌒀򌢀򌲀򍂀򍒀򍢀򍲀򎂀򎒀򎢀򎲀򏂀򏒀򏢀򏲀"
    \o "򰂀򰒀򰢀򰲀򱂀򱒀򱢀򱲀򲂀򲒀򲢀򲲀򳂀򳒀򳢀򳲀򴂀򴒀򴢀򴲀򵂀򵒀򵢀򵲀򶂀򶒀򶢀򶲀򷂀򷒀򷢀򷲀򸂀򸒀򸢀򸲀򹂀򹒀򹢀򹲀򺂀򺒀򺢀򺲀򻂀򻒀򻢀򻲀򼂀򼒀򼢀򼲀򽂀򽒀򽢀򽲀򾂀򾒀򾢀򾲀򿂀򿒀򿢀򿲀"
    \o "󀂀󀒀󀢀󀲀󁂀󁒀󁢀󁲀󂂀󂒀󂢀󂲀󃂀󃒀󃢀󃲀󄂀󄒀󄢀󄲀󅂀󅒀󅢀󅲀󆂀󆒀󆢀󆲀󇂀󇒀󇢀󇲀󈂀󈒀󈢀󈲀󉂀󉒀󉢀󉲀󊂀󊒀󊢀󊲀󋂀󋒀󋢀󋲀󌂀󌒀󌢀󌲀󍂀󍒀󍢀󍲀󎂀󎒀󎢀󎲀󏂀󏒀󏢀󏲀"
    \o "󰂀󰒀󰢀󰲀󱂀󱒀󱢀󱲀󲂀󲒀󲢀󲲀󳂀󳒀󳢀󳲀󴂀󴒀󴢀󴲀󵂀󵒀󵢀󵲀󶂀󶒀󶢀󶲀󷂀󷒀󷢀󷲀󸂀󸒀󸢀󸲀󹂀󹒀󹢀󹲀󺂀󺒀󺢀󺲀󻂀󻒀󻢀󻲀󼂀󼒀󼢀󼲀󽂀󽒀󽢀󽲀󾂀󾒀󾢀󾲀󿂀󿒀󿢀󿲀"
    \o "􀂀􀒀􀢀􀲀􁂀􁒀􁢀􁲀􂂀􂒀􂢀􂲀􃂀􃒀􃢀􃲀􄂀􄒀􄢀􄲀􅂀􅒀􅢀􅲀􆂀􆒀􆢀􆲀􇂀􇒀􇢀􇲀􈂀􈒀􈢀􈲀􉂀􉒀􉢀􉲀􊂀􊒀􊢀􊲀􋂀􋒀􋢀􋲀􌂀􌒀􌢀􌲀􍂀􍒀􍢀􍲀􎂀􎒀􎢀􎲀􏂀􏒀􏢀􏲀"
HighSurrogates ==
    {SubSeq(SurrogatePairs, 2 * k - 1, 2 * k - 1) :
        k \in 1..(Len(SurrogatePairs) \div 2)}
IsHighSurrogate(s, i) == SubSeq(s, i, i) \in HighSurrogates

\* str::chars, as a set: the characters of s, each the substring of its one
\* or two units.
Chars(s) ==
    {IF IsHighSurrogate(s, i) THEN SubSeq(s, i, i + 1) ELSE SubSeq(s, i, i) :
        i \in {j \in 1..Len(s) : j = 1 \/ ~IsHighSurrogate(s, j - 1)}}

\* str::chars().next() on a string that is not empty.
FirstChar(s) ==
    IF IsHighSurrogate(s, 1) THEN SubSeq(s, 1, 2) ELSE SubSeq(s, 1, 1)

\* [T]::join(sep) on a sequence of strings.
RECURSIVE Join(_, _)
Join(strs, sep) ==
    IF Len(strs) = 0 THEN ""
    ELSE IF Len(strs) = 1 THEN strs[1]
    ELSE strs[1] \o sep \o Join(Tail(strs), sep)

\* Iterator::collect::<Result<Vec<_>, _>>(): the first Err in order, else
\* the Ok values in order.
Collect(rs) ==
    IF \E i \in 1..Len(rs) : ~rs[i].ok
    THEN rs[CHOOSE i \in 1..Len(rs) :
                /\ ~rs[i].ok
                /\ \A j \in 1..(i - 1) : rs[j].ok]
    ELSE Ok([i \in 1..Len(rs) |-> rs[i].val])

\* Result::map_err(|err| WithCtx { ty_name: None, field_name: Some(name), err }).
MapErrField(res, name) ==
    IF res.ok THEN res ELSE Err(WithCtx(None, Some(name), res.err))

\* char::is_numeric is true of the characters of the general categories Nd,
\* Nl and No; char::is_alphanumeric of those and of the characters with the
\* Alphabetic property.  The tables list the characters beyond ASCII of
\* either class that a string of the model can hold: those whose UTF-16
\* units all have a low byte of 80 or more, which leaves half of the Basic
\* Multilingual Plane and, beyond it, half of U+30000..U+333FF among the
\* alphabetic characters and none of the numeric ones (Unicode 17.0, the
\* tables of rustc 1.95; an older toolchain knows fewer of them).  A code
\* point with both properties is listed as numeric.
AlphabeticBeyondAscii ==
    "ªµºÀÁÂÃÄÅÆÇÈÉÊËÌÍÎÏÐÑÒÓÔÕÖØÙÚÛÜÝÞßàáâãäåæçèéêëìíîïðñòóôõöøùúûüýþÿƀƁƂƃƄƅƆƇƈƉƊƋƌƍƎƏƐƑƒƓƔƕƖƗƘƙƚƛƜƝƞƟƠơƢƣƤƥƦƧƨƩƪƫƬƭƮƯưƱƲƳƴƵƶƷƸƹƺƻƼƽƾ"
    \o "ƿǀǁǂǃǄǅǆǇǈǉǊǋǌǍǎǏǐǑǒǓǔǕǖǗǘǙǚǛǜǝǞǟǠǡǢǣǤǥǦǧǨǩǪǫǬǭǮǯǰǱǲǳǴǵǶǷǸǹǺǻǼǽǾǿʀʁʂʃʄʅʆʇʈʉʊʋʌʍʎʏʐʑʒʓʔʕʖʗʘʙʚʛʜʝʞʟʠʡʢʣʤʥʦʧʨʩʪʫʬʭʮʯʰʱʲʳʴʵʶʷʸʹʺʻʼʽʾ"
    \o "ʿˀˁˆˇˈˉˊˋˌˍˎˏːˑˠˡˢˣˤˬˮΆΈΉΊΌΎΏΐΑΒΓΔΕΖΗΘΙΚΛΜΝΞΟΠΡΣΤΥΦΧΨΩΪΫάέήίΰαβγδεζηθικλμνξοπρςστυφχψωϊϋόύώϏϐϑϒϓϔϕϖϗϘϙϚϛϜϝϞϟϠϡϢϣϤϥϦϧϨϩϪϫϬϭϮϯϰϱϲϳ"
    \o "ϴϵϷϸϹϺϻϼϽϾϿҀҁҊҋҌҍҎҏҐґҒғҔҕҖҗҘҙҚқҜҝҞҟҠҡҢңҤҥҦҧҨҩҪҫҬҭҮүҰұҲҳҴҵҶҷҸҹҺһҼҽҾҿӀӁӂӃӄӅӆӇӈӉӊӋӌӍӎӏӐӑӒӓӔӕӖӗӘәӚӛӜӝӞӟӠӡӢӣӤӥӦӧӨөӪӫӬӭӮӯӰӱӲӳӴӵӶӷӸӹӺӻӼ"
    \o "ӽӾӿրցւփքօֆևֈְֱֲֳִֵֶַָׇֹֺֻּֽֿׁׂׅׄאבגדהוזחטיךכלםמןנסעףפץצקרשתׯװױײڀځڂڃڄڅچڇڈډڊڋڌڍڎڏڐڑڒړڔڕږڗژڙښڛڜڝڞڟڠڡڢڣڤڥڦڧڨکڪګڬڭڮگڰڱڲڳڴڵڶڷڸڹںڻڼڽھڿۀ"
    \o "ہۂۃۄۅۆۇۈۉۊۋیۍێۏېۑےۓەۣۖۗۘۙۚۛۜۡۢۤۥۦۭۧۨۮۯۺۻۼۿހށނރބޅކއވމފދތލގޏސޑޒޓޔޕޖޗޘޙޚޛޜޝޞޟޠޡޢޣޤޥަާިީުޫެޭޮޯްޱߊߋߌߍߎߏߐߑߒߓߔߕߖߗߘߙߚߛߜߝߞߟߠߡߢߣߤߥߦߧߨߩߪߴߵߺ"
    \o "ࢀࢁࢂࢃࢄࢅࢆࢇࢉࢊࢋࢌࢍࢎ࢏ࢗࢠࢡࢢࢣࢤࢥࢦࢧࢨࢩࢪࢫࢬࢭࢮࢯࢰࢱࢲࢳࢴࢵࢶࢷࢸࢹࢺࢻࢼࢽࢾࢿࣀࣁࣂࣃࣄࣅࣆࣇࣈࣉࣰࣱࣲࣣࣦࣩࣶࣹࣺࣔࣕࣖࣗࣘࣙࣚࣛࣜࣝࣞࣟࣤࣥࣧࣨࣳࣴࣵࣷࣸࣻࣼࣽࣾࣿঀঁংঃঅআইঈউঊঋঌএঐওঔকখগঘঙচছজঝঞটঠডঢণতথদধ"
    \o "নপফবভমযরলশষসহঽািীুূৃৄেৈোৌৎৗড়ঢ়য়ৠৡৢৣৰৱৼઁંઃઅઆઇઈઉઊઋઌઍએઐઑઓઔકખગઘઙચછજઝઞટઠડઢણતથદધનપફબભમયરલળવશષસહઽાિીુૂૃૄૅેૈૉોૌૐૠૡૢૣૹૺૻૼஂஃஅஆஇஈஉஊஎஏஐஒஓஔகஙச"
    \o "ஜஞடணதநனபமயரறலளழவஶஷஸஹாிீுூெேைொோௌௐௗಀಁಂಃಅಆಇಈಉಊಋಌಎಏಐಒಓಔಕಖಗಘಙಚಛಜಝಞಟಠಡಢಣತಥದಧನಪಫಬಭಮಯರಱಲಳವಶಷಸಹಽಾಿೀುೂೃೄೆೇೈೊೋೌೕೖ೜ೝೞೠೡೢೣೱೲೳඁංඃඅආඇඈඉඊඋඌඍඎඏඐඑ"
    \o "ඒඓඔඕඖකඛගඝඞඟචඡජඣඤඥඦටඨඩඪණඬතථදධනඳපඵබභමඹයරලවශෂසහළෆාැෑිීුූෘෙේෛොෝෞෟෲෳກຂຄຆງຈຉຊຌຍຎຏຐຑຒຓດຕຖທຘນບປຜຝພຟຠມຢຣລວຨຩສຫຬອຮຯະັາຳິີຶືຸູົຼຽເແໂໃໄໆໍໜໝໞ"
    \o "ໟཱྀྀྂྃྈྉྊྋྌྍྎྏྐྑྒྒྷྔྕྖྗྙྚྛྜྜྷྞྟྠྡྡྷྣྤྥྦྦྷྨྩྪྫྫྷྭྮྯྰྱྲླྴྵྶྷྸྐྵྺྻྼႀႁႂႃႄႅႆႇႈႉႊႋႌႍႎႏႚႛႜႝႠႡႢႣႤႥႦႧႨႩႪႫႬႭႮႯႰႱႲႳႴႵႶႷႸႹႺႻႼႽႾႿჀჁჂჃჄჅჇჍაბგდევზთიკლ"
    \o "მნოპჟრსტუფქღყშჩცძწჭხჯჰჱჲჳჴჵჶჷჸჹჺჼჽჾჿᆀᆁᆂᆃᆄᆅᆆᆇᆈᆉᆊᆋᆌᆍᆎᆏᆐᆑᆒᆓᆔᆕᆖᆗᆘᆙᆚᆛᆜᆝᆞᆟᆠᆡᆢᆣᆤᆥᆦᆧᆨᆩᆪᆫᆬᆭᆮᆯᆰᆱᆲᆳᆴᆵᆶᆷᆸᆹᆺᆻᆼᆽᆾᆿᇀᇁᇂᇃᇄᇅᇆᇇᇈᇉᇊᇋᇌᇍᇎᇏᇐᇑᇒᇓᇔᇕᇖᇗᇘᇙᇚᇛ"
    \o "ᇜᇝᇞᇟᇠᇡᇢᇣᇤᇥᇦᇧᇨᇩᇪᇫᇬᇭᇮᇯᇰᇱᇲᇳᇴᇵᇶᇷᇸᇹᇺᇻᇼᇽᇾᇿኀኁኂኃኄኅኆኇኈኊኋኌኍነኑኒናኔንኖኗኘኙኚኛኜኝኞኟአኡኢኣኤእኦኧከኩኪካኬክኮኯኰኲኳኴኵኸኹኺኻኼኽኾዀዂዃዄዅወዉዊዋዌውዎዏዐዑዒዓዔዕዖዘዙዚዛዜዝዞዟዠዡዢዣዤዥዦ"
    \o "ዧየዩዪያዬይዮዯደዱዲዳዴድዶዷዸዹዺዻዼዽዾዿᎀᎁᎂᎃᎄᎅᎆᎇᎈᎉᎊᎋᎌᎍᎎᎏᎠᎡᎢᎣᎤᎥᎦᎧᎨᎩᎪᎫᎬᎭᎮᎯᎰᎱᎲᎳᎴᎵᎶᎷᎸᎹᎺᎻᎼᎽᎾᎿᏀᏁᏂᏃᏄᏅᏆᏇᏈᏉᏊᏋᏌᏍᏎᏏᏐᏑᏒᏓᏔᏕᏖᏗᏘᏙᏚᏛᏜᏝᏞᏟᏠᏡᏢᏣᏤᏥᏦᏧᏨᏩᏪᏫᏬᏭᏮᏯᏰᏱᏲᏳᏴᏵᏸ"
    \o "ᏹᏺᏻᏼᏽᒀᒁᒂᒃᒄᒅᒆᒇᒈᒉᒊᒋᒌᒍᒎᒏᒐᒑᒒᒓᒔᒕᒖᒗᒘᒙᒚᒛᒜᒝᒞᒟᒠᒡᒢᒣᒤᒥᒦᒧᒨᒩᒪᒫᒬᒭᒮᒯᒰᒱᒲᒳᒴᒵᒶᒷᒸᒹᒺᒻᒼᒽᒾᒿᓀᓁᓂᓃᓄᓅᓆᓇᓈᓉᓊᓋᓌᓍᓎᓏᓐᓑᓒᓓᓔᓕᓖᓗᓘᓙᓚᓛᓜᓝᓞᓟᓠᓡᓢᓣᓤᓥᓦᓧᓨᓩᓪᓫᓬᓭᓮᓯᓰᓱᓲᓳᓴᓵᓶᓷᓸᓹᓺ"
    \o "ᓻᓼᓽᓾᓿᖀᖁᖂᖃᖄᖅᖆᖇᖈᖉᖊᖋᖌᖍᖎᖏᖐᖑᖒᖓᖔᖕᖖᖗᖘᖙᖚᖛᖜᖝᖞᖟᖠᖡᖢᖣᖤᖥᖦᖧᖨᖩᖪᖫᖬᖭᖮᖯᖰᖱᖲᖳᖴᖵᖶᖷᖸᖹᖺᖻᖼᖽᖾᖿᗀᗁᗂᗃᗄᗅᗆᗇᗈᗉᗊᗋᗌᗍᗎᗏᗐᗑᗒᗓᗔᗕᗖᗗᗘᗙᗚᗛᗜᗝᗞᗟᗠᗡᗢᗣᗤᗥᗦᗧᗨᗩᗪᗫᗬᗭᗮᗯᗰᗱᗲᗳᗴᗵᗶᗷᗸᗹᗺ"
    \o "ᗻᗼᗽᗾᗿᚁᚂᚃᚄᚅᚆᚇᚈᚉᚊᚋᚌᚍᚎᚏᚐᚑᚒᚓᚔᚕᚖᚗᚘᚙᚚᚠᚡᚢᚣᚤᚥᚦᚧᚨᚩᚪᚫᚬᚭᚮᚯᚰᚱᚲᚳᚴᚵᚶᚷᚸᚹᚺᚻᚼᚽᚾᚿᛀᛁᛂᛃᛄᛅᛆᛇᛈᛉᛊᛋᛌᛍᛎᛏᛐᛑᛒᛓᛔᛕᛖᛗᛘᛙᛚᛛᛜᛝᛞᛟᛠᛡᛢᛣᛤᛥᛦᛧᛨᛩᛪᛱᛲᛳᛴᛵᛶᛷᛸកខគឃងចឆជឈញដឋឌឍ"
    \o "ណតថទធនបផពភមយរលវឝឞសហឡអឣឤឥឦឧឨឩឪឫឬឭឮឯឰឱឲឳាិីឹឺុូួើឿៀេែៃោៅំះៈៗៜᢀᢁᢂᢃᢄᢅᢆᢇᢈᢉᢊᢋᢌᢍᢎᢏᢐᢑᢒᢓᢔᢕᢖᢗᢘᢙᢚᢛᢜᢝᢞᢟᢠᢡᢢᢣᢤᢥᢦᢧᢨᢩᢪᢰᢱᢲᢳᢴᢵᢶᢷᢸᢹᢺᢻᢼᢽᢾᢿᣀᣁᣂᣃᣄᣅᣆᣇᣈᣉ"
    \o "ᣊᣋᣌᣍᣎᣏᣐᣑᣒᣓᣔᣕᣖᣗᣘᣙᣚᣛᣜᣝᣞᣟᣠᣡᣢᣣᣤᣥᣦᣧᣨᣩᣪᣫᣬᣭᣮᣯᣰᣱᣲᣳᣴᣵᦀᦁᦂᦃᦄᦅᦆᦇᦈᦉᦊᦋᦌᦍᦎᦏᦐᦑᦒᦓᦔᦕᦖᦗᦘᦙᦚᦛᦜᦝᦞᦟᦠᦡᦢᦣᦤᦥᦦᦧᦨᦩᦪᦫᦰᦱᦲᦳᦴᦵᦶᦷᦸᦹᦺᦻᦼᦽᦾᦿᧀᧁᧂᧃᧄᧅᧆᧇᧈᧉᪧᪿᫀᫌᫍᫎᮀᮁᮂᮃᮄᮅᮆᮇ"
    \o "ᮈᮉᮊᮋᮌᮍᮎᮏᮐᮑᮒᮓᮔᮕᮖᮗᮘᮙᮚᮛᮜᮝᮞᮟᮠᮡᮢᮣᮤᮥᮦᮧᮨᮩᮬᮭᮮᮯᮺᮻᮼᮽᮾᮿᯀᯁᯂᯃᯄᯅᯆᯇᯈᯉᯊᯋᯌᯍᯎᯏᯐᯑᯒᯓᯔᯕᯖᯗᯘᯙᯚᯛᯜᯝᯞᯟᯠᯡᯢᯣᯤᯥᯧᯨᯩᯪᯫᯬᯭᯮᯯᯰᯱᲀᲁᲂᲃᲄᲅᲆᲇᲈᲉᲊᲐᲑᲒᲓᲔᲕᲖᲗᲘᲙᲚᲛᲜᲝᲞᲟᲠᲡᲢᲣᲤᲥᲦᲧ"
    \o "ᲨᲩᲪᲫᲬᲭᲮᲯᲰᲱᲲᲳᲴᲵᲶᲷᲸᲹᲺᲽᲾᲿᳩᳪᳫᳬᳮᳯᳰᳱᳲᳳᳵᳶᳺᶀᶁᶂᶃᶄᶅᶆᶇᶈᶉᶊᶋᶌᶍᶎᶏᶐᶑᶒᶓᶔᶕᶖᶗᶘᶙᶚᶛᶜᶝᶞᶟᶠᶡᶢᶣᶤᶥᶦᶧᶨᶩᶪᶫᶬᶭᶮᶯᶰᶱᶲᶳᶴᶵᶶᶷᶸᶹᶺᶻᶼᶽᶾᶿᷓᷔᷕᷖᷗᷘᷙᷚᷛᷜᷝᷞᷟᷠᷡᷢᷣᷤᷥᷦᷧᷨᷩᷪᷫᷬᷭᷮᷯ"
    \o "ᷰᷱᷲᷳᷴẀẁẂẃẄẅẆẇẈẉẊẋẌẍẎẏẐẑẒẓẔẕẖẗẘẙẚẛẜẝẞẟẠạẢảẤấẦầẨẩẪẫẬậẮắẰằẲẳẴẵẶặẸẹẺẻẼẽẾếỀềỂểỄễỆệỈỉỊịỌọỎỏỐốỒồỔổỖỗỘộỚớỜờỞởỠỡỢợỤụỦủỨứỪừỬửỮữỰựỲỳỴỵỶỷỸỹỺ"
    \o "ỻỼỽỾỿᾀᾁᾂᾃᾄᾅᾆᾇᾈᾉᾊᾋᾌᾍᾎᾏᾐᾑᾒᾓᾔᾕᾖᾗᾘᾙᾚᾛᾜᾝᾞᾟᾠᾡᾢᾣᾤᾥᾦᾧᾨᾩᾪᾫᾬᾭᾮᾯᾰᾱᾲᾳᾴᾶᾷᾸᾹᾺΆᾼιῂῃῄῆῇῈΈῊΉῌῐῑῒΐῖῗῘῙῚΊῠῡῢΰῤῥῦῧῨῩῪΎῬῲῳῴῶῷῸΌῺΏῼₐₑₒₓₔₕₖₗₘₙₚₛₜↃↄⒶⒷⒸⒹ"
    \o "ⒺⒻⒼⒽⒾⒿⓀⓁⓂⓃⓄⓅⓆⓇⓈⓉⓊⓋⓌⓍⓎⓏⓐⓑⓒⓓⓔⓕⓖⓗⓘⓙⓚⓛⓜⓝⓞⓟⓠⓡⓢⓣⓤⓥⓦⓧⓨⓩⲀⲁⲂⲃⲄⲅⲆⲇⲈⲉⲊⲋⲌⲍⲎⲏⲐⲑⲒⲓⲔⲕⲖⲗⲘⲙⲚⲛⲜⲝⲞⲟⲠⲡⲢⲣⲤⲥⲦⲧⲨⲩⲪⲫⲬⲭⲮⲯⲰⲱⲲⲳⲴⲵⲶⲷⲸⲹⲺⲻⲼⲽⲾⲿⳀⳁⳂⳃⳄⳅⳆⳇⳈⳉⳊⳋⳌⳍⳎⳏ"
    \o "ⳐⳑⳒⳓⳔⳕⳖⳗⳘⳙⳚⳛⳜⳝⳞⳟⳠⳡⳢⳣⳤⳫⳬⳭⳮⳲⳳⶀⶁⶂⶃⶄⶅⶆⶇⶈⶉⶊⶋⶌⶍⶎⶏⶐⶑⶒⶓⶔⶕⶖⶠⶡⶢⶣⶤⶥⶦⶨⶩⶪⶫⶬⶭⶮⶰⶱⶲⶳⶴⶵⶶⶸⶹⶺⶻⶼⶽⶾⷀⷁⷂⷃⷄⷅⷆⷈⷉⷊⷋⷌⷍⷎⷐⷑⷒⷓⷔⷕⷖⷘⷙⷚⷛⷜⷝⷞⷠⷡⷢⷣⷤⷥⷦⷧⷨⷩⷪⷫⷬⷭⷮⷯⷰⷱⷲⷳⷴⷵ"
    \o "ⷶⷷⷸⷹⷺⷻⷼⷽⷾⷿむめもゃやゅゆょよらりるれろゎわゐゑをんゔゕゖゝゞゟァアィイゥウェエォオカガキギクグケゲコゴサザシジスズセゼソゾタダチヂッツヅテデトドナニヌネノハバパヒビピフブプヘベペホボポマミムメモャヤュユョヨラリルレロヮワヰヱヲンヴヵヶヷヸヹヺーヽ"
    \o "ヾヿㆀㆁㆂㆃㆄㆅㆆㆇㆈㆉㆊㆋㆌㆍㆎㆠㆡㆢㆣㆤㆥㆦㆧㆨㆩㆪㆫㆬㆭㆮㆯㆰㆱㆲㆳㆴㆵㆶㆷㆸㆹㆺㆻㆼㆽㆾㆿㇰㇱㇲㇳㇴㇵㇶㇷㇸㇹㇺㇻㇼㇽㇾㇿ㒀㒁㒂㒃㒄㒅㒆㒇㒈㒉㒊㒋㒌㒍㒎㒏㒐㒑㒒㒓㒔㒕㒖㒗㒘㒙㒚㒛㒜㒝㒞㒟㒠㒡㒢㒣㒤㒥㒦㒧㒨㒩㒪㒫㒬㒭㒮㒯㒰㒱㒲㒳㒴㒵㒶㒷㒸㒹㒺㒻㒼㒽㒾"
    \o "㒿㓀㓁㓂㓃㓄㓅㓆㓇㓈㓉㓊㓋㓌㓍㓎㓏㓐㓑㓒㓓㓔㓕㓖㓗㓘㓙㓚㓛㓜㓝㓞㓟㓠㓡㓢㓣㓤㓥㓦㓧㓨㓩㓪㓫㓬㓭㓮㓯㓰㓱㓲㓳㓴㓵㓶㓷㓸㓹㓺㓻㓼㓽㓾㓿㖀㖁㖂㖃㖄㖅㖆㖇㖈㖉㖊㖋㖌㖍㖎㖏㖐㖑㖒㖓㖔㖕㖖㖗㖘㖙㖚㖛㖜㖝㖞㖟㖠㖡㖢㖣㖤㖥㖦㖧㖨㖩㖪㖫㖬㖭㖮㖯㖰㖱㖲㖳㖴㖵㖶㖷㖸㖹㖺㖻㖼㖽㖾"
    \o "㖿㗀㗁㗂㗃㗄㗅㗆㗇㗈㗉㗊㗋㗌㗍㗎㗏㗐㗑㗒㗓㗔㗕㗖㗗㗘㗙㗚㗛㗜㗝㗞㗟㗠㗡㗢㗣㗤㗥㗦㗧㗨㗩㗪㗫㗬㗭㗮㗯㗰㗱㗲㗳㗴㗵㗶㗷㗸㗹㗺㗻㗼㗽㗾㗿㚀㚁㚂㚃㚄㚅㚆㚇㚈㚉㚊㚋㚌㚍㚎㚏㚐㚑㚒㚓㚔㚕㚖㚗㚘㚙㚚㚛㚜㚝㚞㚟㚠㚡㚢㚣㚤㚥㚦㚧㚨㚩㚪㚫㚬㚭㚮㚯㚰㚱㚲㚳㚴㚵㚶㚷㚸㚹㚺㚻㚼㚽㚾"
    \o "㚿㛀㛁㛂㛃㛄㛅㛆㛇㛈㛉㛊㛋㛌㛍㛎㛏㛐㛑㛒㛓㛔㛕㛖㛗㛘㛙㛚㛛㛜㛝㛞㛟㛠㛡㛢㛣㛤㛥㛦㛧㛨㛩㛪㛫㛬㛭㛮㛯㛰㛱㛲㛳㛴㛵㛶㛷㛸㛹㛺㛻㛼㛽㛾㛿㞀㞁㞂㞃㞄㞅㞆㞇㞈㞉㞊㞋㞌㞍㞎㞏㞐㞑㞒㞓㞔㞕㞖㞗㞘㞙㞚㞛㞜㞝㞞㞟㞠㞡㞢㞣㞤㞥㞦㞧㞨㞩㞪㞫㞬㞭㞮㞯㞰㞱㞲㞳㞴㞵㞶㞷㞸㞹㞺㞻㞼㞽㞾"
    \o "㞿㟀㟁㟂㟃㟄㟅㟆㟇㟈㟉㟊㟋㟌㟍㟎㟏㟐㟑㟒㟓㟔㟕㟖㟗㟘㟙㟚㟛㟜㟝㟞㟟㟠㟡㟢㟣㟤㟥㟦㟧㟨㟩㟪㟫㟬㟭㟮㟯㟰㟱㟲㟳㟴㟵㟶㟷㟸㟹㟺㟻㟼㟽㟾㟿㢀㢁㢂㢃㢄㢅㢆㢇㢈㢉㢊㢋㢌㢍㢎㢏㢐㢑㢒㢓㢔㢕㢖㢗㢘㢙㢚㢛㢜㢝㢞㢟㢠㢡㢢㢣㢤㢥㢦㢧㢨㢩㢪㢫㢬㢭㢮㢯㢰㢱㢲㢳㢴㢵㢶㢷㢸㢹㢺㢻㢼㢽㢾"
    \o "㢿㣀㣁㣂㣃㣄㣅㣆㣇㣈㣉㣊㣋㣌㣍㣎㣏㣐㣑㣒㣓㣔㣕㣖㣗㣘㣙㣚㣛㣜㣝㣞㣟㣠㣡㣢㣣㣤㣥㣦㣧㣨㣩㣪㣫㣬㣭㣮㣯㣰㣱㣲㣳㣴㣵㣶㣷㣸㣹㣺㣻㣼㣽㣾㣿㦀㦁㦂㦃㦄㦅㦆㦇㦈㦉㦊㦋㦌㦍㦎㦏㦐㦑㦒㦓㦔㦕㦖㦗㦘㦙㦚㦛㦜㦝㦞㦟㦠㦡㦢㦣㦤㦥㦦㦧㦨㦩㦪㦫㦬㦭㦮㦯㦰㦱㦲㦳㦴㦵㦶㦷㦸㦹㦺㦻㦼㦽㦾"
    \o "㦿㧀㧁㧂㧃㧄㧅㧆㧇㧈㧉㧊㧋㧌㧍㧎㧏㧐㧑㧒㧓㧔㧕㧖㧗㧘㧙㧚㧛㧜㧝㧞㧟㧠㧡㧢㧣㧤㧥㧦㧧㧨㧩㧪㧫㧬㧭㧮㧯㧰㧱㧲㧳㧴㧵㧶㧷㧸㧹㧺㧻㧼㧽㧾㧿㪀㪁㪂㪃㪄㪅㪆㪇㪈㪉㪊㪋㪌㪍㪎㪏㪐㪑㪒㪓㪔㪕㪖㪗㪘㪙㪚㪛㪜㪝㪞㪟㪠㪡㪢㪣㪤㪥㪦㪧㪨㪩㪪㪫㪬㪭㪮㪯㪰㪱㪲㪳㪴㪵㪶㪷㪸㪹㪺㪻㪼㪽㪾"
    \o "㪿㫀㫁㫂㫃㫄㫅㫆㫇㫈㫉㫊㫋㫌㫍㫎㫏㫐㫑㫒㫓㫔㫕㫖㫗㫘㫙㫚㫛㫜㫝㫞㫟㫠㫡㫢㫣㫤㫥㫦㫧㫨㫩㫪㫫㫬㫭㫮㫯㫰㫱㫲㫳㫴㫵㫶㫷㫸㫹㫺㫻㫼㫽㫾㫿㮀㮁㮂㮃㮄㮅㮆㮇㮈㮉㮊㮋㮌㮍㮎㮏㮐㮑㮒㮓㮔㮕㮖㮗㮘㮙㮚㮛㮜㮝㮞㮟㮠㮡㮢㮣㮤㮥㮦㮧㮨㮩㮪㮫㮬㮭㮮㮯㮰㮱㮲㮳㮴㮵㮶㮷㮸㮹㮺㮻㮼㮽㮾"
    \o "㮿㯀㯁㯂㯃㯄㯅㯆㯇㯈㯉㯊㯋㯌㯍㯎㯏㯐㯑㯒㯓㯔㯕㯖㯗㯘㯙㯚㯛㯜㯝㯞㯟㯠㯡㯢㯣㯤㯥㯦㯧㯨㯩㯪㯫㯬㯭㯮㯯㯰㯱㯲㯳㯴㯵㯶㯷㯸㯹㯺㯻㯼㯽㯾㯿㲀㲁㲂㲃㲄㲅㲆㲇㲈㲉㲊㲋㲌㲍㲎㲏㲐㲑㲒㲓㲔㲕㲖㲗㲘㲙㲚㲛㲜㲝㲞㲟㲠㲡㲢㲣㲤㲥㲦㲧㲨㲩㲪㲫㲬㲭㲮㲯㲰㲱㲲㲳㲴㲵㲶㲷㲸㲹㲺㲻㲼㲽㲾"
    \o "㲿㳀㳁㳂㳃㳄㳅㳆㳇㳈㳉㳊㳋㳌㳍㳎㳏㳐㳑㳒㳓㳔㳕㳖㳗㳘㳙㳚㳛㳜㳝㳞㳟㳠㳡㳢㳣㳤㳥㳦㳧㳨㳩㳪㳫㳬㳭㳮㳯㳰㳱㳲㳳㳴㳵㳶㳷㳸㳹㳺㳻㳼㳽㳾㳿㶀㶁㶂㶃㶄㶅㶆㶇㶈㶉㶊㶋㶌㶍㶎㶏㶐㶑㶒㶓㶔㶕㶖㶗㶘㶙㶚㶛㶜㶝㶞㶟㶠㶡㶢㶣㶤㶥㶦㶧㶨㶩㶪㶫㶬㶭㶮㶯㶰㶱㶲㶳㶴㶵㶶㶷㶸㶹㶺㶻㶼㶽㶾"
    \o "㶿㷀㷁㷂㷃㷄㷅㷆㷇㷈㷉㷊㷋㷌㷍㷎㷏㷐㷑㷒㷓㷔㷕㷖㷗㷘㷙㷚㷛㷜㷝㷞㷟㷠㷡㷢㷣㷤㷥㷦㷧㷨㷩㷪㷫㷬㷭㷮㷯㷰㷱㷲㷳㷴㷵㷶㷷㷸㷹㷺㷻㷼㷽㷾㷿㺀㺁㺂㺃㺄㺅㺆㺇㺈㺉㺊㺋㺌㺍㺎㺏㺐㺑㺒㺓㺔㺕㺖㺗㺘㺙㺚㺛㺜㺝㺞㺟㺠㺡㺢㺣㺤㺥㺦㺧㺨㺩㺪㺫㺬㺭㺮㺯㺰㺱㺲㺳㺴㺵㺶㺷㺸㺹㺺㺻㺼㺽㺾"
    \o "㺿㻀㻁㻂㻃㻄㻅㻆㻇㻈㻉㻊㻋㻌㻍㻎㻏㻐㻑㻒㻓㻔㻕㻖㻗㻘㻙㻚㻛㻜㻝㻞㻟㻠㻡㻢㻣㻤㻥㻦㻧㻨㻩㻪㻫㻬㻭㻮㻯㻰㻱㻲㻳㻴㻵㻶㻷㻸㻹㻺㻻㻼㻽㻾㻿㾀㾁㾂㾃㾄㾅㾆㾇㾈㾉㾊㾋㾌㾍㾎㾏㾐㾑㾒㾓㾔㾕㾖㾗㾘㾙㾚㾛㾜㾝㾞㾟㾠㾡㾢㾣㾤㾥㾦㾧㾨㾩㾪㾫㾬㾭㾮㾯㾰㾱㾲㾳㾴㾵㾶㾷㾸㾹㾺㾻㾼㾽㾾"
    \o "㾿㿀㿁㿂㿃㿄㿅㿆㿇㿈㿉㿊㿋㿌㿍㿎㿏㿐㿑㿒㿓㿔㿕㿖㿗㿘㿙㿚㿛㿜㿝㿞㿟㿠㿡㿢㿣㿤㿥㿦㿧㿨㿩㿪㿫㿬㿭㿮㿯㿰㿱㿲㿳㿴㿵㿶㿷㿸㿹㿺㿻㿼㿽㿾㿿䂀䂁䂂䂃䂄䂅䂆䂇䂈䂉䂊䂋䂌䂍䂎䂏䂐䂑䂒䂓䂔䂕䂖䂗䂘䂙䂚䂛䂜䂝䂞䂟䂠䂡䂢䂣䂤䂥䂦䂧䂨䂩䂪䂫䂬䂭䂮䂯䂰䂱䂲䂳䂴䂵䂶䂷䂸䂹䂺䂻䂼䂽䂾"
    \o "䂿䃀䃁䃂䃃䃄䃅䃆䃇䃈䃉䃊䃋䃌䃍䃎䃏䃐䃑䃒䃓䃔䃕䃖䃗䃘䃙䃚䃛䃜䃝䃞䃟䃠䃡䃢䃣䃤䃥䃦䃧䃨䃩䃪䃫䃬䃭䃮䃯䃰䃱䃲䃳䃴䃵䃶䃷䃸䃹䃺䃻䃼䃽䃾䃿䆀䆁䆂䆃䆄䆅䆆䆇䆈䆉䆊䆋䆌䆍䆎䆏䆐䆑䆒䆓䆔䆕䆖䆗䆘䆙䆚䆛䆜䆝䆞䆟䆠䆡䆢䆣䆤䆥䆦䆧䆨䆩䆪䆫䆬䆭䆮䆯䆰䆱䆲䆳䆴䆵䆶䆷䆸䆹䆺䆻䆼䆽䆾"
    \o "䆿䇀䇁䇂䇃䇄䇅䇆䇇䇈䇉䇊䇋䇌䇍䇎䇏䇐䇑䇒䇓䇔䇕䇖䇗䇘䇙䇚䇛䇜䇝䇞䇟䇠䇡䇢䇣䇤䇥䇦䇧䇨䇩䇪䇫䇬䇭䇮䇯䇰䇱䇲䇳䇴䇵䇶䇷䇸䇹䇺䇻䇼䇽䇾䇿䊀䊁䊂䊃䊄䊅䊆䊇䊈䊉䊊䊋䊌䊍䊎䊏䊐䊑䊒䊓䊔䊕䊖䊗䊘䊙䊚䊛䊜䊝䊞䊟䊠䊡䊢䊣䊤䊥䊦䊧䊨䊩䊪䊫䊬䊭䊮䊯䊰䊱䊲䊳䊴䊵䊶䊷䊸䊹䊺䊻䊼䊽䊾"
    \o "䊿䋀䋁䋂䋃䋄䋅䋆䋇䋈䋉䋊䋋䋌䋍䋎䋏䋐䋑䋒䋓䋔䋕䋖䋗䋘䋙䋚䋛䋜䋝䋞䋟䋠䋡䋢䋣䋤䋥䋦䋧䋨䋩䋪䋫䋬䋭䋮䋯䋰䋱䋲䋳䋴䋵䋶䋷䋸䋹䋺䋻䋼䋽䋾䋿䎀䎁䎂䎃䎄䎅䎆䎇䎈䎉䎊䎋䎌䎍䎎䎏䎐䎑䎒䎓䎔䎕䎖䎗䎘䎙䎚䎛䎜䎝䎞䎟䎠䎡䎢䎣䎤䎥䎦䎧䎨䎩䎪䎫䎬䎭䎮䎯䎰䎱䎲䎳䎴䎵䎶䎷䎸䎹䎺䎻䎼䎽䎾"
    \o "䎿䏀䏁䏂䏃䏄䏅䏆䏇䏈䏉䏊䏋䏌䏍䏎䏏䏐䏑䏒䏓䏔䏕䏖䏗䏘䏙䏚䏛䏜䏝䏞䏟䏠䏡䏢䏣䏤䏥䏦䏧䏨䏩䏪䏫䏬䏭䏮䏯䏰䏱䏲䏳䏴䏵䏶䏷䏸䏹䏺䏻䏼䏽䏾䏿䒀䒁䒂䒃䒄䒅䒆䒇䒈䒉䒊䒋䒌䒍䒎䒏䒐䒑䒒䒓䒔䒕䒖䒗䒘䒙䒚䒛䒜䒝䒞䒟䒠䒡䒢䒣䒤䒥䒦䒧䒨䒩䒪䒫䒬䒭䒮䒯䒰䒱䒲䒳䒴䒵䒶䒷䒸䒹䒺䒻䒼䒽䒾"
    \o "䒿䓀䓁䓂䓃䓄䓅䓆䓇䓈䓉䓊䓋䓌䓍䓎䓏䓐䓑䓒䓓䓔䓕䓖䓗䓘䓙䓚䓛䓜䓝䓞䓟䓠䓡䓢䓣䓤䓥䓦䓧䓨䓩䓪䓫䓬䓭䓮䓯䓰䓱䓲䓳䓴䓵䓶䓷䓸䓹䓺䓻䓼䓽䓾䓿䖀䖁䖂䖃䖄䖅䖆䖇䖈䖉䖊䖋䖌䖍䖎䖏䖐䖑䖒䖓䖔䖕䖖䖗䖘䖙䖚䖛䖜䖝䖞䖟䖠䖡䖢䖣䖤䖥䖦䖧䖨䖩䖪䖫䖬䖭䖮䖯䖰䖱䖲䖳䖴䖵䖶䖷䖸䖹䖺䖻䖼䖽䖾"
    \o "䖿䗀䗁䗂䗃䗄䗅䗆䗇䗈䗉䗊䗋䗌䗍䗎䗏䗐䗑䗒䗓䗔䗕䗖䗗䗘䗙䗚䗛䗜䗝䗞䗟䗠䗡䗢䗣䗤䗥䗦䗧䗨䗩䗪䗫䗬䗭䗮䗯䗰䗱䗲䗳䗴䗵䗶䗷䗸䗹䗺䗻䗼䗽䗾䗿䚀䚁䚂䚃䚄䚅䚆䚇䚈䚉䚊䚋䚌䚍䚎䚏䚐䚑䚒䚓䚔䚕䚖䚗䚘䚙䚚䚛䚜䚝䚞䚟䚠䚡䚢䚣䚤䚥䚦䚧䚨䚩䚪䚫䚬䚭䚮䚯䚰䚱䚲䚳䚴䚵䚶䚷䚸䚹䚺䚻䚼䚽䚾"
    \o "䚿䛀䛁䛂䛃䛄䛅䛆䛇䛈䛉䛊䛋䛌䛍䛎䛏䛐䛑䛒䛓䛔䛕䛖䛗䛘䛙䛚䛛䛜䛝䛞䛟䛠䛡䛢䛣䛤䛥䛦䛧䛨䛩䛪䛫䛬䛭䛮䛯䛰䛱䛲䛳䛴䛵䛶䛷䛸䛹䛺䛻䛼䛽䛾䛿䞀䞁䞂䞃䞄䞅䞆䞇䞈䞉䞊䞋䞌䞍䞎䞏䞐䞑䞒䞓䞔䞕䞖䞗䞘䞙䞚䞛䞜䞝䞞䞟䞠䞡䞢䞣䞤䞥䞦䞧䞨䞩䞪䞫䞬䞭䞮䞯䞰䞱䞲䞳䞴䞵䞶䞷䞸䞹䞺䞻䞼䞽䞾"
    \o "䞿䟀䟁䟂䟃䟄䟅䟆䟇䟈䟉䟊䟋䟌䟍䟎䟏䟐䟑䟒䟓䟔䟕䟖䟗䟘䟙䟚䟛䟜䟝䟞䟟䟠䟡䟢䟣䟤䟥䟦䟧䟨䟩䟪䟫䟬䟭䟮䟯䟰䟱䟲䟳䟴䟵䟶䟷䟸䟹䟺䟻䟼䟽䟾䟿䢀䢁䢂䢃䢄䢅䢆䢇䢈䢉䢊䢋䢌䢍䢎䢏䢐䢑䢒䢓䢔䢕䢖䢗䢘䢙䢚䢛䢜䢝䢞䢟䢠䢡䢢䢣䢤䢥䢦䢧䢨䢩䢪䢫䢬䢭䢮䢯䢰䢱䢲䢳䢴䢵䢶䢷䢸䢹䢺䢻䢼䢽䢾"
    \o "䢿䣀䣁䣂䣃䣄䣅䣆䣇䣈䣉䣊䣋䣌䣍䣎䣏䣐䣑䣒䣓䣔䣕䣖䣗䣘䣙䣚䣛䣜䣝䣞䣟䣠䣡䣢䣣䣤䣥䣦䣧䣨䣩䣪䣫䣬䣭䣮䣯䣰䣱䣲䣳䣴䣵䣶䣷䣸䣹䣺䣻䣼䣽䣾䣿䦀䦁䦂䦃䦄䦅䦆䦇䦈䦉䦊䦋䦌䦍䦎䦏䦐䦑䦒䦓䦔䦕䦖䦗䦘䦙䦚䦛䦜䦝䦞䦟䦠䦡䦢䦣䦤䦥䦦䦧䦨䦩䦪䦫䦬䦭䦮䦯䦰䦱䦲䦳䦴䦵䦶䦷䦸䦹䦺䦻䦼䦽䦾"
    \o "䦿䧀䧁䧂䧃䧄䧅䧆䧇䧈䧉䧊䧋䧌䧍䧎䧏䧐䧑䧒䧓䧔䧕䧖䧗䧘䧙䧚䧛䧜䧝䧞䧟䧠䧡䧢䧣䧤䧥䧦䧧䧨䧩䧪䧫䧬䧭䧮䧯䧰䧱䧲䧳䧴䧵䧶䧷䧸䧹䧺䧻䧼䧽䧾䧿䪀䪁䪂䪃䪄䪅䪆䪇䪈䪉䪊䪋䪌䪍䪎䪏䪐䪑䪒䪓䪔䪕䪖䪗䪘䪙䪚䪛䪜䪝䪞䪟䪠䪡䪢䪣䪤䪥䪦䪧䪨䪩䪪䪫䪬䪭䪮䪯䪰䪱䪲䪳䪴䪵䪶䪷䪸䪹䪺䪻䪼䪽䪾"
    \o "䪿䫀䫁䫂䫃䫄䫅䫆䫇䫈䫉䫊䫋䫌䫍䫎䫏䫐䫑䫒䫓䫔䫕䫖䫗䫘䫙䫚䫛䫜䫝䫞䫟䫠䫡䫢䫣䫤䫥䫦䫧䫨䫩䫪䫫䫬䫭䫮䫯䫰䫱䫲䫳䫴䫵䫶䫷䫸䫹䫺䫻䫼䫽䫾䫿䮀䮁䮂䮃䮄䮅䮆䮇䮈䮉䮊䮋䮌䮍䮎䮏䮐䮑䮒䮓䮔䮕䮖䮗䮘䮙䮚䮛䮜䮝䮞䮟䮠䮡䮢䮣䮤䮥䮦䮧䮨䮩䮪䮫䮬䮭䮮䮯䮰䮱䮲䮳䮴䮵䮶䮷䮸䮹䮺䮻䮼䮽䮾"
    \o "䮿䯀䯁䯂䯃䯄䯅䯆䯇䯈䯉䯊䯋䯌䯍䯎䯏䯐䯑䯒䯓䯔䯕䯖䯗䯘䯙䯚䯛䯜䯝䯞䯟䯠䯡䯢䯣䯤䯥䯦䯧䯨䯩䯪䯫䯬䯭䯮䯯䯰䯱䯲䯳䯴䯵䯶䯷䯸䯹䯺䯻䯼䯽䯾䯿䲀䲁䲂䲃䲄䲅䲆䲇䲈䲉䲊䲋䲌䲍䲎䲏䲐䲑䲒䲓䲔䲕䲖䲗䲘䲙䲚䲛䲜䲝䲞䲟䲠䲡䲢䲣䲤䲥䲦䲧䲨䲩䲪䲫䲬䲭䲮䲯䲰䲱䲲䲳䲴䲵䲶䲷䲸䲹䲺䲻䲼䲽䲾"
    \o "䲿䳀䳁䳂䳃䳄䳅䳆䳇䳈䳉䳊䳋䳌䳍䳎䳏䳐䳑䳒䳓䳔䳕䳖䳗䳘䳙䳚䳛䳜䳝䳞䳟䳠䳡䳢䳣䳤䳥䳦䳧䳨䳩䳪䳫䳬䳭䳮䳯䳰䳱䳲䳳䳴䳵䳶䳷䳸䳹䳺䳻䳼䳽䳾䳿䶀䶁䶂䶃䶄䶅䶆䶇䶈䶉䶊䶋䶌䶍䶎䶏䶐䶑䶒䶓䶔䶕䶖䶗䶘䶙䶚䶛䶜䶝䶞䶟䶠䶡䶢䶣䶤䶥䶦䶧䶨䶩䶪䶫䶬䶭䶮䶯䶰䶱䶲䶳䶴䶵䶶䶷䶸䶹䶺䶻䶼䶽䶾"
    \o "䶿亀亁亂亃亄亅了亇予争亊事二亍于亏亐云互亓五井亖亗亘亙亚些亜亝亞亟亠亡亢亣交亥亦产亨亩亪享京亭亮亯亰亱亲亳亴亵亶亷亸亹人亻亼亽亾亿什仁仂仃仄仅仆仇仈仉今介仌仍从仏仐仑仒仓仔仕他仗付仙仚仛仜仝仞仟仠仡仢代令以仦仧仨仩仪仫们仭仮仯仰仱仲仳仴仵件价仸仹仺任仼份仾"
    \o "仿侀侁侂侃侄侅來侇侈侉侊例侌侍侎侏侐侑侒侓侔侕侖侗侘侙侚供侜依侞侟侠価侢侣侤侥侦侧侨侩侪侫侬侭侮侯侰侱侲侳侴侵侶侷侸侹侺侻侼侽侾便俀俁係促俄俅俆俇俈俉俊俋俌俍俎俏俐俑俒俓俔俕俖俗俘俙俚俛俜保俞俟俠信俢俣俤俥俦俧俨俩俪俫俬俭修俯俰俱俲俳俴俵俶俷俸俹俺俻俼俽俾"
    \o "俿傀傁傂傃傄傅傆傇傈傉傊傋傌傍傎傏傐傑傒傓傔傕傖傗傘備傚傛傜傝傞傟傠傡傢傣傤傥傦傧储傩傪傫催傭傮傯傰傱傲傳傴債傶傷傸傹傺傻傼傽傾傿僀僁僂僃僄僅僆僇僈僉僊僋僌働僎像僐僑僒僓僔僕僖僗僘僙僚僛僜僝僞僟僠僡僢僣僤僥僦僧僨僩僪僫僬僭僮僯僰僱僲僳僴僵僶僷僸價僺僻僼僽僾"
    \o "僿冀冁冂冃冄内円冇冈冉冊冋册再冎冏冐冑冒冓冔冕冖冗冘写冚军农冝冞冟冠冡冢冣冤冥冦冧冨冩冪冫冬冭冮冯冰冱冲决冴况冶冷冸冹冺冻冼冽冾冿净凁凂凃凄凅准凇凈凉凊凋凌凍凎减凐凑凒凓凔凕凖凗凘凙凚凛凜凝凞凟几凡凢凣凤凥処凧凨凩凪凫凬凭凮凯凰凱凲凳凴凵凶凷凸凹出击凼函凾"
    \o "凿劀劁劂劃劄劅劆劇劈劉劊劋劌劍劎劏劐劑劒劓劔劕劖劗劘劙劚力劜劝办功加务劢劣劤劥劦劧动助努劫劬劭劮劯劰励劲劳労劵劶劷劸効劺劻劼劽劾势勀勁勂勃勄勅勆勇勈勉勊勋勌勍勎勏勐勑勒勓勔動勖勗勘務勚勛勜勝勞募勠勡勢勣勤勥勦勧勨勩勪勫勬勭勮勯勰勱勲勳勴勵勶勷勸勹勺勻勼勽勾"
    \o "勿厀厁厂厃厄厅历厇厈厉厊压厌厍厎厏厐厑厒厓厔厕厖厗厘厙厚厛厜厝厞原厠厡厢厣厤厥厦厧厨厩厪厫厬厭厮厯厰厱厲厳厴厵厶厷厸厹厺去厼厽厾县叀叁参參叄叅叆叇又叉及友双反収叏叐发叒叓叔叕取受变叙叚叛叜叝叞叟叠叡叢口古句另叧叨叩只叫召叭叮可台叱史右叴叵叶号司叹叺叻叼叽叾"
    \o "叿咀咁咂咃咄咅咆咇咈咉咊咋和咍咎咏咐咑咒咓咔咕咖咗咘咙咚咛咜咝咞咟咠咡咢咣咤咥咦咧咨咩咪咫咬咭咮咯咰咱咲咳咴咵咶咷咸咹咺咻咼咽咾咿哀品哂哃哄哅哆哇哈哉哊哋哌响哎哏哐哑哒哓哔哕哖哗哘哙哚哛哜哝哞哟哠員哢哣哤哥哦哧哨哩哪哫哬哭哮哯哰哱哲哳哴哵哶哷哸哹哺哻哼哽哾"
    \o "哿喀喁喂喃善喅喆喇喈喉喊喋喌喍喎喏喐喑喒喓喔喕喖喗喘喙喚喛喜喝喞喟喠喡喢喣喤喥喦喧喨喩喪喫喬喭單喯喰喱喲喳喴喵営喷喸喹喺喻喼喽喾喿嗀嗁嗂嗃嗄嗅嗆嗇嗈嗉嗊嗋嗌嗍嗎嗏嗐嗑嗒嗓嗔嗕嗖嗗嗘嗙嗚嗛嗜嗝嗞嗟嗠嗡嗢嗣嗤嗥嗦嗧嗨嗩嗪嗫嗬嗭嗮嗯嗰嗱嗲嗳嗴嗵嗶嗷嗸嗹嗺嗻嗼嗽嗾"
    \o "嗿嚀嚁嚂嚃嚄嚅嚆嚇嚈嚉嚊嚋嚌嚍嚎嚏嚐嚑嚒嚓嚔嚕嚖嚗嚘嚙嚚嚛嚜嚝嚞嚟嚠嚡嚢嚣嚤嚥嚦嚧嚨嚩嚪嚫嚬嚭嚮嚯嚰嚱嚲嚳嚴嚵嚶嚷嚸嚹嚺嚻嚼嚽嚾嚿囀囁囂囃囄囅囆囇囈囉囊囋囌囍囎囏囐囑囒囓囔囕囖囗囘囙囚四囜囝回囟因囡团団囤囥囦囧囨囩囪囫囬园囮囯困囱囲図围囵囶囷囸囹固囻囼国图"
    \o "囿垀垁垂垃垄垅垆垇垈垉垊型垌垍垎垏垐垑垒垓垔垕垖垗垘垙垚垛垜垝垞垟垠垡垢垣垤垥垦垧垨垩垪垫垬垭垮垯垰垱垲垳垴垵垶垷垸垹垺垻垼垽垾垿埀埁埂埃埄埅埆埇埈埉埊埋埌埍城埏埐埑埒埓埔埕埖埗埘埙埚埛埜埝埞域埠埡埢埣埤埥埦埧埨埩埪埫埬埭埮埯埰埱埲埳埴埵埶執埸培基埻埼埽埾"
    \o "埿墀墁墂境墄墅墆墇墈墉墊墋墌墍墎墏墐墑墒墓墔墕墖増墘墙墚墛墜墝增墟墠墡墢墣墤墥墦墧墨墩墪墫墬墭墮墯墰墱墲墳墴墵墶墷墸墹墺墻墼墽墾墿壀壁壂壃壄壅壆壇壈壉壊壋壌壍壎壏壐壑壒壓壔壕壖壗壘壙壚壛壜壝壞壟壠壡壢壣壤壥壦壧壨壩壪士壬壭壮壯声壱売壳壴壵壶壷壸壹壺壻壼壽壾"
    \o "壿妀妁如妃妄妅妆妇妈妉妊妋妌妍妎妏妐妑妒妓妔妕妖妗妘妙妚妛妜妝妞妟妠妡妢妣妤妥妦妧妨妩妪妫妬妭妮妯妰妱妲妳妴妵妶妷妸妹妺妻妼妽妾妿姀姁姂姃姄姅姆姇姈姉姊始姌姍姎姏姐姑姒姓委姕姖姗姘姙姚姛姜姝姞姟姠姡姢姣姤姥姦姧姨姩姪姫姬姭姮姯姰姱姲姳姴姵姶姷姸姹姺姻姼姽姾"
    \o "姿媀媁媂媃媄媅媆媇媈媉媊媋媌媍媎媏媐媑媒媓媔媕媖媗媘媙媚媛媜媝媞媟媠媡媢媣媤媥媦媧媨媩媪媫媬媭媮媯媰媱媲媳媴媵媶媷媸媹媺媻媼媽媾媿嫀嫁嫂嫃嫄嫅嫆嫇嫈嫉嫊嫋嫌嫍嫎嫏嫐嫑嫒嫓嫔嫕嫖嫗嫘嫙嫚嫛嫜嫝嫞嫟嫠嫡嫢嫣嫤嫥嫦嫧嫨嫩嫪嫫嫬嫭嫮嫯嫰嫱嫲嫳嫴嫵嫶嫷嫸嫹嫺嫻嫼嫽嫾"
    \o "嫿宀宁宂它宄宅宆宇守安宊宋完宍宎宏宐宑宒宓宔宕宖宗官宙定宛宜宝实実宠审客宣室宥宦宧宨宩宪宫宬宭宮宯宰宱宲害宴宵家宷宸容宺宻宼宽宾宿寀寁寂寃寄寅密寇寈寉寊寋富寍寎寏寐寑寒寓寔寕寖寗寘寙寚寛寜寝寞察寠寡寢寣寤寥實寧寨審寪寫寬寭寮寯寰寱寲寳寴寵寶寷寸对寺寻导寽対"
    \o "寿岀岁岂岃岄岅岆岇岈岉岊岋岌岍岎岏岐岑岒岓岔岕岖岗岘岙岚岛岜岝岞岟岠岡岢岣岤岥岦岧岨岩岪岫岬岭岮岯岰岱岲岳岴岵岶岷岸岹岺岻岼岽岾岿峀峁峂峃峄峅峆峇峈峉峊峋峌峍峎峏峐峑峒峓峔峕峖峗峘峙峚峛峜峝峞峟峠峡峢峣峤峥峦峧峨峩峪峫峬峭峮峯峰峱峲峳峴峵島峷峸峹峺峻峼峽峾"
    \o "峿嶀嶁嶂嶃嶄嶅嶆嶇嶈嶉嶊嶋嶌嶍嶎嶏嶐嶑嶒嶓嶔嶕嶖嶗嶘嶙嶚嶛嶜嶝嶞嶟嶠嶡嶢嶣嶤嶥嶦嶧嶨嶩嶪嶫嶬嶭嶮嶯嶰嶱嶲嶳嶴嶵嶶嶷嶸嶹嶺嶻嶼嶽嶾嶿巀巁巂巃巄巅巆巇巈巉巊巋巌巍巎巏巐巑巒巓巔巕巖巗巘巙巚巛巜川州巟巠巡巢巣巤工左巧巨巩巪巫巬巭差巯巰己已巳巴巵巶巷巸巹巺巻巼巽巾"
    \o "巿庀庁庂広庄庅庆庇庈庉床庋庌庍庎序庐庑庒库应底庖店庘庙庚庛府庝庞废庠庡庢庣庤庥度座庨庩庪庫庬庭庮庯庰庱庲庳庴庵庶康庸庹庺庻庼庽庾庿廀廁廂廃廄廅廆廇廈廉廊廋廌廍廎廏廐廑廒廓廔廕廖廗廘廙廚廛廜廝廞廟廠廡廢廣廤廥廦廧廨廩廪廫廬廭廮廯廰廱廲廳廴廵延廷廸廹建廻廼廽廾"
    \o "廿往征徂徃径待徆徇很徉徊律後徍徎徏徐徑徒従徔徕徖得徘徙徚徛徜徝從徟徠御徢徣徤徥徦徧徨復循徫徬徭微徯徰徱徲徳徴徵徶德徸徹徺徻徼徽徾徿忀忁忂心忄必忆忇忈忉忊忋忌忍忎忏忐忑忒忓忔忕忖志忘忙忚忛応忝忞忟忠忡忢忣忤忥忦忧忨忩忪快忬忭忮忯忰忱忲忳忴念忶忷忸忹忺忻忼忽忾"
    \o "忿悀悁悂悃悄悅悆悇悈悉悊悋悌悍悎悏悐悑悒悓悔悕悖悗悘悙悚悛悜悝悞悟悠悡悢患悤悥悦悧您悩悪悫悬悭悮悯悰悱悲悳悴悵悶悷悸悹悺悻悼悽悾悿惀惁惂惃惄情惆惇惈惉惊惋惌惍惎惏惐惑惒惓惔惕惖惗惘惙惚惛惜惝惞惟惠惡惢惣惤惥惦惧惨惩惪惫惬惭惮惯惰惱惲想惴惵惶惷惸惹惺惻惼惽惾"
    \o "惿憀憁憂憃憄憅憆憇憈憉憊憋憌憍憎憏憐憑憒憓憔憕憖憗憘憙憚憛憜憝憞憟憠憡憢憣憤憥憦憧憨憩憪憫憬憭憮憯憰憱憲憳憴憵憶憷憸憹憺憻憼憽憾憿懀懁懂懃懄懅懆懇懈應懊懋懌懍懎懏懐懑懒懓懔懕懖懗懘懙懚懛懜懝懞懟懠懡懢懣懤懥懦懧懨懩懪懫懬懭懮懯懰懱懲懳懴懵懶懷懸懹懺懻懼懽懾"
    \o "懿技抁抂抃抄抅抆抇抈抉把抋抌抍抎抏抐抑抒抓抔投抖抗折抙抚抛抜抝択抟抠抡抢抣护报抦抧抨抩抪披抬抭抮抯抰抱抲抳抴抵抶抷抸抹抺抻押抽抾抿拀拁拂拃拄担拆拇拈拉拊拋拌拍拎拏拐拑拒拓拔拕拖拗拘拙拚招拜拝拞拟拠拡拢拣拤拥拦拧拨择拪拫括拭拮拯拰拱拲拳拴拵拶拷拸拹拺拻拼拽拾"
    \o "拿掀掁掂掃掄掅掆掇授掉掊掋掌掍掎掏掐掑排掓掔掕掖掗掘掙掚掛掜掝掞掟掠採探掣掤接掦控推掩措掫掬掭掮掯掰掱掲掳掴掵掶掷掸掹掺掻掼掽掾掿揀揁揂揃揄揅揆揇揈揉揊揋揌揍揎描提揑插揓揔揕揖揗揘揙揚換揜揝揞揟揠握揢揣揤揥揦揧揨揩揪揫揬揭揮揯揰揱揲揳援揵揶揷揸揹揺揻揼揽揾"
    \o "揿撀撁撂撃撄撅撆撇撈撉撊撋撌撍撎撏撐撑撒撓撔撕撖撗撘撙撚撛撜撝撞撟撠撡撢撣撤撥撦撧撨撩撪撫撬播撮撯撰撱撲撳撴撵撶撷撸撹撺撻撼撽撾撿擀擁擂擃擄擅擆擇擈擉擊擋擌操擎擏擐擑擒擓擔擕擖擗擘擙據擛擜擝擞擟擠擡擢擣擤擥擦擧擨擩擪擫擬擭擮擯擰擱擲擳擴擵擶擷擸擹擺擻擼擽擾"
    \o "擿斀斁斂斃斄斅斆文斈斉斊斋斌斍斎斏斐斑斒斓斔斕斖斗斘料斚斛斜斝斞斟斠斡斢斣斤斥斦斧斨斩斪斫斬断斮斯新斱斲斳斴斵斶斷斸方斺斻於施斾斿旀旁旂旃旄旅旆旇旈旉旊旋旌旍旎族旐旑旒旓旔旕旖旗旘旙旚旛旜旝旞旟无旡既旣旤日旦旧旨早旪旫旬旭旮旯旰旱旲旳旴旵时旷旸旹旺旻旼旽旾"
    \o "旿暀暁暂暃暄暅暆暇暈暉暊暋暌暍暎暏暐暑暒暓暔暕暖暗暘暙暚暛暜暝暞暟暠暡暢暣暤暥暦暧暨暩暪暫暬暭暮暯暰暱暲暳暴暵暶暷暸暹暺暻暼暽暾暿曀曁曂曃曄曅曆曇曈曉曊曋曌曍曎曏曐曑曒曓曔曕曖曗曘曙曚曛曜曝曞曟曠曡曢曣曤曥曦曧曨曩曪曫曬曭曮曯曰曱曲曳更曵曶曷書曹曺曻曼曽曾"
    \o "替枀极枂枃构枅枆枇枈枉枊枋枌枍枎枏析枑枒枓枔枕枖林枘枙枚枛果枝枞枟枠枡枢枣枤枥枦枧枨枩枪枫枬枭枮枯枰枱枲枳枴枵架枷枸枹枺枻枼枽枾枿柀柁柂柃柄柅柆柇柈柉柊柋柌柍柎柏某柑柒染柔柕柖柗柘柙柚柛柜柝柞柟柠柡柢柣柤查柦柧柨柩柪柫柬柭柮柯柰柱柲柳柴柵柶柷柸柹柺査柼柽柾"
    \o "柿梀梁梂梃梄梅梆梇梈梉梊梋梌梍梎梏梐梑梒梓梔梕梖梗梘梙梚梛梜條梞梟梠梡梢梣梤梥梦梧梨梩梪梫梬梭梮梯械梱梲梳梴梵梶梷梸梹梺梻梼梽梾梿检棁棂棃棄棅棆棇棈棉棊棋棌棍棎棏棐棑棒棓棔棕棖棗棘棙棚棛棜棝棞棟棠棡棢棣棤棥棦棧棨棩棪棫棬棭森棯棰棱棲棳棴棵棶棷棸棹棺棻棼棽棾"
    \o "棿榀榁概榃榄榅榆榇榈榉榊榋榌榍榎榏榐榑榒榓榔榕榖榗榘榙榚榛榜榝榞榟榠榡榢榣榤榥榦榧榨榩榪榫榬榭榮榯榰榱榲榳榴榵榶榷榸榹榺榻榼榽榾榿槀槁槂槃槄槅槆槇槈槉槊構槌槍槎槏槐槑槒槓槔槕槖槗様槙槚槛槜槝槞槟槠槡槢槣槤槥槦槧槨槩槪槫槬槭槮槯槰槱槲槳槴槵槶槷槸槹槺槻槼槽槾"
    \o "槿檀檁檂檃檄檅檆檇檈檉檊檋檌檍檎檏檐檑檒檓檔檕檖檗檘檙檚檛檜檝檞檟檠檡檢檣檤檥檦檧檨檩檪檫檬檭檮檯檰檱檲檳檴檵檶檷檸檹檺檻檼檽檾檿櫀櫁櫂櫃櫄櫅櫆櫇櫈櫉櫊櫋櫌櫍櫎櫏櫐櫑櫒櫓櫔櫕櫖櫗櫘櫙櫚櫛櫜櫝櫞櫟櫠櫡櫢櫣櫤櫥櫦櫧櫨櫩櫪櫫櫬櫭櫮櫯櫰櫱櫲櫳櫴櫵櫶櫷櫸櫹櫺櫻櫼櫽櫾"
    \o "櫿殀殁殂殃殄殅殆殇殈殉殊残殌殍殎殏殐殑殒殓殔殕殖殗殘殙殚殛殜殝殞殟殠殡殢殣殤殥殦殧殨殩殪殫殬殭殮殯殰殱殲殳殴段殶殷殸殹殺殻殼殽殾殿毀毁毂毃毄毅毆毇毈毉毊毋毌母毎每毐毑毒毓比毕毖毗毘毙毚毛毜毝毞毟毠毡毢毣毤毥毦毧毨毩毪毫毬毭毮毯毰毱毲毳毴毵毶毷毸毹毺毻毼毽毾"
    \o "毿沀沁沂沃沄沅沆沇沈沉沊沋沌沍沎沏沐沑沒沓沔沕沖沗沘沙沚沛沜沝沞沟沠没沢沣沤沥沦沧沨沩沪沫沬沭沮沯沰沱沲河沴沵沶沷沸油沺治沼沽沾沿泀況泂泃泄泅泆泇泈泉泊泋泌泍泎泏泐泑泒泓泔法泖泗泘泙泚泛泜泝泞泟泠泡波泣泤泥泦泧注泩泪泫泬泭泮泯泰泱泲泳泴泵泶泷泸泹泺泻泼泽泾"
    \o "泿涀涁涂涃涄涅涆涇消涉涊涋涌涍涎涏涐涑涒涓涔涕涖涗涘涙涚涛涜涝涞涟涠涡涢涣涤涥润涧涨涩涪涫涬涭涮涯涰涱液涳涴涵涶涷涸涹涺涻涼涽涾涿淀淁淂淃淄淅淆淇淈淉淊淋淌淍淎淏淐淑淒淓淔淕淖淗淘淙淚淛淜淝淞淟淠淡淢淣淤淥淦淧淨淩淪淫淬淭淮淯淰深淲淳淴淵淶混淸淹淺添淼淽淾"
    \o "淿満溁溂溃溄溅溆溇溈溉溊溋溌溍溎溏源溑溒溓溔溕準溗溘溙溚溛溜溝溞溟溠溡溢溣溤溥溦溧溨溩溪溫溬溭溮溯溰溱溲溳溴溵溶溷溸溹溺溻溼溽溾溿滀滁滂滃滄滅滆滇滈滉滊滋滌滍滎滏滐滑滒滓滔滕滖滗滘滙滚滛滜滝滞滟滠满滢滣滤滥滦滧滨滩滪滫滬滭滮滯滰滱滲滳滴滵滶滷滸滹滺滻滼滽滾"
    \o "滿澀澁澂澃澄澅澆澇澈澉澊澋澌澍澎澏澐澑澒澓澔澕澖澗澘澙澚澛澜澝澞澟澠澡澢澣澤澥澦澧澨澩澪澫澬澭澮澯澰澱澲澳澴澵澶澷澸澹澺澻澼澽澾澿激濁濂濃濄濅濆濇濈濉濊濋濌濍濎濏濐濑濒濓濔濕濖濗濘濙濚濛濜濝濞濟濠濡濢濣濤濥濦濧濨濩濪濫濬濭濮濯濰濱濲濳濴濵濶濷濸濹濺濻濼濽濾"
    \o "濿炀炁炂炃炄炅炆炇炈炉炊炋炌炍炎炏炐炑炒炓炔炕炖炗炘炙炚炛炜炝炞炟炠炡炢炣炤炥炦炧炨炩炪炫炬炭炮炯炰炱炲炳炴炵炶炷炸点為炻炼炽炾炿烀烁烂烃烄烅烆烇烈烉烊烋烌烍烎烏烐烑烒烓烔烕烖烗烘烙烚烛烜烝烞烟烠烡烢烣烤烥烦烧烨烩烪烫烬热烮烯烰烱烲烳烴烵烶烷烸烹烺烻烼烽烾"
    \o "烿熀熁熂熃熄熅熆熇熈熉熊熋熌熍熎熏熐熑熒熓熔熕熖熗熘熙熚熛熜熝熞熟熠熡熢熣熤熥熦熧熨熩熪熫熬熭熮熯熰熱熲熳熴熵熶熷熸熹熺熻熼熽熾熿燀燁燂燃燄燅燆燇燈燉燊燋燌燍燎燏燐燑燒燓燔燕燖燗燘燙燚燛燜燝燞營燠燡燢燣燤燥燦燧燨燩燪燫燬燭燮燯燰燱燲燳燴燵燶燷燸燹燺燻燼燽燾"
    \o "燿犀犁犂犃犄犅犆犇犈犉犊犋犌犍犎犏犐犑犒犓犔犕犖犗犘犙犚犛犜犝犞犟犠犡犢犣犤犥犦犧犨犩犪犫犬犭犮犯犰犱犲犳犴犵状犷犸犹犺犻犼犽犾犿狀狁狂狃狄狅狆狇狈狉狊狋狌狍狎狏狐狑狒狓狔狕狖狗狘狙狚狛狜狝狞狟狠狡狢狣狤狥狦狧狨狩狪狫独狭狮狯狰狱狲狳狴狵狶狷狸狹狺狻狼狽狾"
    \o "狿玀玁玂玃玄玅玆率玈玉玊王玌玍玎玏玐玑玒玓玔玕玖玗玘玙玚玛玜玝玞玟玠玡玢玣玤玥玦玧玨玩玪玫玬玭玮环现玱玲玳玴玵玶玷玸玹玺玻玼玽玾玿珀珁珂珃珄珅珆珇珈珉珊珋珌珍珎珏珐珑珒珓珔珕珖珗珘珙珚珛珜珝珞珟珠珡珢珣珤珥珦珧珨珩珪珫珬班珮珯珰珱珲珳珴珵珶珷珸珹珺珻珼珽現"
    \o "珿璀璁璂璃璄璅璆璇璈璉璊璋璌璍璎璏璐璑璒璓璔璕璖璗璘璙璚璛璜璝璞璟璠璡璢璣璤璥璦璧璨璩璪璫璬璭璮璯環璱璲璳璴璵璶璷璸璹璺璻璼璽璾璿瓀瓁瓂瓃瓄瓅瓆瓇瓈瓉瓊瓋瓌瓍瓎瓏瓐瓑瓒瓓瓔瓕瓖瓗瓘瓙瓚瓛瓜瓝瓞瓟瓠瓡瓢瓣瓤瓥瓦瓧瓨瓩瓪瓫瓬瓭瓮瓯瓰瓱瓲瓳瓴瓵瓶瓷瓸瓹瓺瓻瓼瓽瓾"
    \o "瓿疀疁疂疃疄疅疆疇疈疉疊疋疌疍疎疏疐疑疒疓疔疕疖疗疘疙疚疛疜疝疞疟疠疡疢疣疤疥疦疧疨疩疪疫疬疭疮疯疰疱疲疳疴疵疶疷疸疹疺疻疼疽疾疿痀痁痂痃痄病痆症痈痉痊痋痌痍痎痏痐痑痒痓痔痕痖痗痘痙痚痛痜痝痞痟痠痡痢痣痤痥痦痧痨痩痪痫痬痭痮痯痰痱痲痳痴痵痶痷痸痹痺痻痼痽痾"
    \o "痿皀皁皂皃的皅皆皇皈皉皊皋皌皍皎皏皐皑皒皓皔皕皖皗皘皙皚皛皜皝皞皟皠皡皢皣皤皥皦皧皨皩皪皫皬皭皮皯皰皱皲皳皴皵皶皷皸皹皺皻皼皽皾皿盀盁盂盃盄盅盆盇盈盉益盋盌盍盎盏盐监盒盓盔盕盖盗盘盙盚盛盜盝盞盟盠盡盢監盤盥盦盧盨盩盪盫盬盭目盯盰盱盲盳直盵盶盷相盹盺盻盼盽盾"
    \o "盿瞀瞁瞂瞃瞄瞅瞆瞇瞈瞉瞊瞋瞌瞍瞎瞏瞐瞑瞒瞓瞔瞕瞖瞗瞘瞙瞚瞛瞜瞝瞞瞟瞠瞡瞢瞣瞤瞥瞦瞧瞨瞩瞪瞫瞬瞭瞮瞯瞰瞱瞲瞳瞴瞵瞶瞷瞸瞹瞺瞻瞼瞽瞾瞿矀矁矂矃矄矅矆矇矈矉矊矋矌矍矎矏矐矑矒矓矔矕矖矗矘矙矚矛矜矝矞矟矠矡矢矣矤知矦矧矨矩矪矫矬短矮矯矰矱矲石矴矵矶矷矸矹矺矻矼矽矾"
    \o "矿碀碁碂碃碄碅碆碇碈碉碊碋碌碍碎碏碐碑碒碓碔碕碖碗碘碙碚碛碜碝碞碟碠碡碢碣碤碥碦碧碨碩碪碫碬碭碮碯碰碱碲碳碴碵碶碷碸碹確碻碼碽碾碿磀磁磂磃磄磅磆磇磈磉磊磋磌磍磎磏磐磑磒磓磔磕磖磗磘磙磚磛磜磝磞磟磠磡磢磣磤磥磦磧磨磩磪磫磬磭磮磯磰磱磲磳磴磵磶磷磸磹磺磻磼磽磾"
    \o "磿禀禁禂禃禄禅禆禇禈禉禊禋禌禍禎福禐禑禒禓禔禕禖禗禘禙禚禛禜禝禞禟禠禡禢禣禤禥禦禧禨禩禪禫禬禭禮禯禰禱禲禳禴禵禶禷禸禹禺离禼禽禾禿秀私秂秃秄秅秆秇秈秉秊秋秌种秎秏秐科秒秓秔秕秖秗秘秙秚秛秜秝秞租秠秡秢秣秤秥秦秧秨秩秪秫秬秭秮积称秱秲秳秴秵秶秷秸秹秺移秼秽秾"
    \o "秿窀突窂窃窄窅窆窇窈窉窊窋窌窍窎窏窐窑窒窓窔窕窖窗窘窙窚窛窜窝窞窟窠窡窢窣窤窥窦窧窨窩窪窫窬窭窮窯窰窱窲窳窴窵窶窷窸窹窺窻窼窽窾窿竀竁竂竃竄竅竆竇竈竉竊立竌竍竎竏竐竑竒竓竔竕竖竗竘站竚竛竜竝竞竟章竡竢竣竤童竦竧竨竩竪竫竬竭竮端竰竱竲竳竴竵競竷竸竹竺竻竼竽竾"
    \o "竿简箁箂箃箄箅箆箇箈箉箊箋箌箍箎箏箐箑箒箓箔箕箖算箘箙箚箛箜箝箞箟箠管箢箣箤箥箦箧箨箩箪箫箬箭箮箯箰箱箲箳箴箵箶箷箸箹箺箻箼箽箾箿節篁篂篃範篅篆篇篈築篊篋篌篍篎篏篐篑篒篓篔篕篖篗篘篙篚篛篜篝篞篟篠篡篢篣篤篥篦篧篨篩篪篫篬篭篮篯篰篱篲篳篴篵篶篷篸篹篺篻篼篽篾"
    \o "篿粀粁粂粃粄粅粆粇粈粉粊粋粌粍粎粏粐粑粒粓粔粕粖粗粘粙粚粛粜粝粞粟粠粡粢粣粤粥粦粧粨粩粪粫粬粭粮粯粰粱粲粳粴粵粶粷粸粹粺粻粼粽精粿糀糁糂糃糄糅糆糇糈糉糊糋糌糍糎糏糐糑糒糓糔糕糖糗糘糙糚糛糜糝糞糟糠糡糢糣糤糥糦糧糨糩糪糫糬糭糮糯糰糱糲糳糴糵糶糷糸糹糺系糼糽糾"
    \o "糿綀綁綂綃綄綅綆綇綈綉綊綋綌綍綎綏綐綑綒經綔綕綖綗綘継続綛綜綝綞綟綠綡綢綣綤綥綦綧綨綩綪綫綬維綮綯綰綱網綳綴綵綶綷綸綹綺綻綼綽綾綿緀緁緂緃緄緅緆緇緈緉緊緋緌緍緎総緐緑緒緓緔緕緖緗緘緙線緛緜緝緞緟締緡緢緣緤緥緦緧編緩緪緫緬緭緮緯緰緱緲緳練緵緶緷緸緹緺緻緼緽緾"
    \o "緿纀纁纂纃纄纅纆纇纈纉纊纋續纍纎纏纐纑纒纓纔纕纖纗纘纙纚纛纜纝纞纟纠纡红纣纤纥约级纨纩纪纫纬纭纮纯纰纱纲纳纴纵纶纷纸纹纺纻纼纽纾线绀绁绂练组绅细织终绉绊绋绌绍绎经绐绑绒结绔绕绖绗绘给绚绛络绝绞统绠绡绢绣绤绥绦继绨绩绪绫绬续绮绯绰绱绲绳维绵绶绷绸绹绺绻综绽绾"
    \o "绿羀羁羂羃羄羅羆羇羈羉羊羋羌羍美羏羐羑羒羓羔羕羖羗羘羙羚羛羜羝羞羟羠羡羢羣群羥羦羧羨義羪羫羬羭羮羯羰羱羲羳羴羵羶羷羸羹羺羻羼羽羾羿翀翁翂翃翄翅翆翇翈翉翊翋翌翍翎翏翐翑習翓翔翕翖翗翘翙翚翛翜翝翞翟翠翡翢翣翤翥翦翧翨翩翪翫翬翭翮翯翰翱翲翳翴翵翶翷翸翹翺翻翼翽翾"
    \o "翿肀肁肂肃肄肅肆肇肈肉肊肋肌肍肎肏肐肑肒肓肔肕肖肗肘肙肚肛肜肝肞肟肠股肢肣肤肥肦肧肨肩肪肫肬肭肮肯肰肱育肳肴肵肶肷肸肹肺肻肼肽肾肿胀胁胂胃胄胅胆胇胈胉胊胋背胍胎胏胐胑胒胓胔胕胖胗胘胙胚胛胜胝胞胟胠胡胢胣胤胥胦胧胨胩胪胫胬胭胮胯胰胱胲胳胴胵胶胷胸胹胺胻胼能胾"
    \o "胿膀膁膂膃膄膅膆膇膈膉膊膋膌膍膎膏膐膑膒膓膔膕膖膗膘膙膚膛膜膝膞膟膠膡膢膣膤膥膦膧膨膩膪膫膬膭膮膯膰膱膲膳膴膵膶膷膸膹膺膻膼膽膾膿臀臁臂臃臄臅臆臇臈臉臊臋臌臍臎臏臐臑臒臓臔臕臖臗臘臙臚臛臜臝臞臟臠臡臢臣臤臥臦臧臨臩自臫臬臭臮臯臰臱臲至致臵臶臷臸臹臺臻臼臽臾"
    \o "臿芀芁节芃芄芅芆芇芈芉芊芋芌芍芎芏芐芑芒芓芔芕芖芗芘芙芚芛芜芝芞芟芠芡芢芣芤芥芦芧芨芩芪芫芬芭芮芯芰花芲芳芴芵芶芷芸芹芺芻芼芽芾芿苀苁苂苃苄苅苆苇苈苉苊苋苌苍苎苏苐苑苒苓苔苕苖苗苘苙苚苛苜苝苞苟苠苡苢苣苤若苦苧苨苩苪苫苬苭苮苯苰英苲苳苴苵苶苷苸苹苺苻苼苽苾"
    \o "苿莀莁莂莃莄莅莆莇莈莉莊莋莌莍莎莏莐莑莒莓莔莕莖莗莘莙莚莛莜莝莞莟莠莡莢莣莤莥莦莧莨莩莪莫莬莭莮莯莰莱莲莳莴莵莶获莸莹莺莻莼莽莾莿菀菁菂菃菄菅菆菇菈菉菊菋菌菍菎菏菐菑菒菓菔菕菖菗菘菙菚菛菜菝菞菟菠菡菢菣菤菥菦菧菨菩菪菫菬菭菮華菰菱菲菳菴菵菶菷菸菹菺菻菼菽菾"
    \o "菿蒀蒁蒂蒃蒄蒅蒆蒇蒈蒉蒊蒋蒌蒍蒎蒏蒐蒑蒒蒓蒔蒕蒖蒗蒘蒙蒚蒛蒜蒝蒞蒟蒠蒡蒢蒣蒤蒥蒦蒧蒨蒩蒪蒫蒬蒭蒮蒯蒰蒱蒲蒳蒴蒵蒶蒷蒸蒹蒺蒻蒼蒽蒾蒿蓀蓁蓂蓃蓄蓅蓆蓇蓈蓉蓊蓋蓌蓍蓎蓏蓐蓑蓒蓓蓔蓕蓖蓗蓘蓙蓚蓛蓜蓝蓞蓟蓠蓡蓢蓣蓤蓥蓦蓧蓨蓩蓪蓫蓬蓭蓮蓯蓰蓱蓲蓳蓴蓵蓶蓷蓸蓹蓺蓻蓼蓽蓾"
    \o "蓿薀薁薂薃薄薅薆薇薈薉薊薋薌薍薎薏薐薑薒薓薔薕薖薗薘薙薚薛薜薝薞薟薠薡薢薣薤薥薦薧薨薩薪薫薬薭薮薯薰薱薲薳薴薵薶薷薸薹薺薻薼薽薾薿藀藁藂藃藄藅藆藇藈藉藊藋藌藍藎藏藐藑藒藓藔藕藖藗藘藙藚藛藜藝藞藟藠藡藢藣藤藥藦藧藨藩藪藫藬藭藮藯藰藱藲藳藴藵藶藷藸藹藺藻藼藽藾"
    \o "藿蚀蚁蚂蚃蚄蚅蚆蚇蚈蚉蚊蚋蚌蚍蚎蚏蚐蚑蚒蚓蚔蚕蚖蚗蚘蚙蚚蚛蚜蚝蚞蚟蚠蚡蚢蚣蚤蚥蚦蚧蚨蚩蚪蚫蚬蚭蚮蚯蚰蚱蚲蚳蚴蚵蚶蚷蚸蚹蚺蚻蚼蚽蚾蚿蛀蛁蛂蛃蛄蛅蛆蛇蛈蛉蛊蛋蛌蛍蛎蛏蛐蛑蛒蛓蛔蛕蛖蛗蛘蛙蛚蛛蛜蛝蛞蛟蛠蛡蛢蛣蛤蛥蛦蛧蛨蛩蛪蛫蛬蛭蛮蛯蛰蛱蛲蛳蛴蛵蛶蛷蛸蛹蛺蛻蛼蛽蛾"
    \o "蛿螀螁螂螃螄螅螆螇螈螉螊螋螌融螎螏螐螑螒螓螔螕螖螗螘螙螚螛螜螝螞螟螠螡螢螣螤螥螦螧螨螩螪螫螬螭螮螯螰螱螲螳螴螵螶螷螸螹螺螻螼螽螾螿蟀蟁蟂蟃蟄蟅蟆蟇蟈蟉蟊蟋蟌蟍蟎蟏蟐蟑蟒蟓蟔蟕蟖蟗蟘蟙蟚蟛蟜蟝蟞蟟蟠蟡蟢蟣蟤蟥蟦蟧蟨蟩蟪蟫蟬蟭蟮蟯蟰蟱蟲蟳蟴蟵蟶蟷蟸蟹蟺蟻蟼蟽蟾"
    \o "蟿袀袁袂袃袄袅袆袇袈袉袊袋袌袍袎袏袐袑袒袓袔袕袖袗袘袙袚袛袜袝袞袟袠袡袢袣袤袥袦袧袨袩袪被袬袭袮袯袰袱袲袳袴袵袶袷袸袹袺袻袼袽袾袿裀裁裂裃裄装裆裇裈裉裊裋裌裍裎裏裐裑裒裓裔裕裖裗裘裙裚裛補裝裞裟裠裡裢裣裤裥裦裧裨裩裪裫裬裭裮裯裰裱裲裳裴裵裶裷裸裹裺裻裼製裾"
    \o "裿覀要覂覃覄覅覆覇覈覉覊見覌覍覎規覐覑覒覓覔覕視覗覘覙覚覛覜覝覞覟覠覡覢覣覤覥覦覧覨覩親覫覬覭覮覯覰覱覲観覴覵覶覷覸覹覺覻覼覽覾覿觀见观觃规觅视觇览觉觊觋觌觍觎觏觐觑角觓觔觕觖觗觘觙觚觛觜觝觞觟觠觡觢解觤觥触觧觨觩觪觫觬觭觮觯觰觱觲觳觴觵觶觷觸觹觺觻觼觽觾"
    \o "觿誀誁誂誃誄誅誆誇誈誉誊誋誌認誎誏誐誑誒誓誔誕誖誗誘誙誚誛誜誝語誟誠誡誢誣誤誥誦誧誨誩說誫説読誮誯誰誱課誳誴誵誶誷誸誹誺誻誼誽誾調諀諁諂諃諄諅諆談諈諉諊請諌諍諎諏諐諑諒諓諔諕論諗諘諙諚諛諜諝諞諟諠諡諢諣諤諥諦諧諨諩諪諫諬諭諮諯諰諱諲諳諴諵諶諷諸諹諺諻諼諽諾"
    \o "諿讀讁讂讃讄讅讆讇讈讉變讋讌讍讎讏讐讑讒讓讔讕讖讗讘讙讚讛讜讝讞讟讠计订讣认讥讦讧讨让讪讫讬训议讯记讱讲讳讴讵讶讷许讹论讻讼讽设访诀证诂诃评诅识诇诈诉诊诋诌词诎诏诐译诒诓诔试诖诗诘诙诚诛诜话诞诟诠诡询诣诤该详诧诨诩诪诫诬语诮误诰诱诲诳说诵诶请诸诹诺读诼诽课"
    \o "诿貀貁貂貃貄貅貆貇貈貉貊貋貌貍貎貏貐貑貒貓貔貕貖貗貘貙貚貛貜貝貞貟負財貢貣貤貥貦貧貨販貪貫責貭貮貯貰貱貲貳貴貵貶買貸貹貺費貼貽貾貿賀賁賂賃賄賅賆資賈賉賊賋賌賍賎賏賐賑賒賓賔賕賖賗賘賙賚賛賜賝賞賟賠賡賢賣賤賥賦賧賨賩質賫賬賭賮賯賰賱賲賳賴賵賶賷賸賹賺賻購賽賾"
    \o "賿趀趁趂趃趄超趆趇趈趉越趋趌趍趎趏趐趑趒趓趔趕趖趗趘趙趚趛趜趝趞趟趠趡趢趣趤趥趦趧趨趩趪趫趬趭趮趯趰趱趲足趴趵趶趷趸趹趺趻趼趽趾趿跀跁跂跃跄跅跆跇跈跉跊跋跌跍跎跏跐跑跒跓跔跕跖跗跘跙跚跛跜距跞跟跠跡跢跣跤跥跦跧跨跩跪跫跬跭跮路跰跱跲跳跴践跶跷跸跹跺跻跼跽跾"
    \o "跿躀躁躂躃躄躅躆躇躈躉躊躋躌躍躎躏躐躑躒躓躔躕躖躗躘躙躚躛躜躝躞躟躠躡躢躣躤躥躦躧躨躩躪身躬躭躮躯躰躱躲躳躴躵躶躷躸躹躺躻躼躽躾躿軀軁軂軃軄軅軆軇軈軉車軋軌軍軎軏軐軑軒軓軔軕軖軗軘軙軚軛軜軝軞軟軠軡転軣軤軥軦軧軨軩軪軫軬軭軮軯軰軱軲軳軴軵軶軷軸軹軺軻軼軽軾"
    \o "軿辀辁辂较辄辅辆辇辈辉辊辋辌辍辎辏辐辑辒输辔辕辖辗辘辙辚辛辜辝辞辟辠辡辢辣辤辥辦辧辨辩辪辫辬辭辮辯辰辱農辳辴辵辶辷辸边辺辻込辽达辿迀迁迂迃迄迅迆过迈迉迊迋迌迍迎迏运近迒迓返迕迖迗还这迚进远违连迟迠迡迢迣迤迥迦迧迨迩迪迫迬迭迮迯述迱迲迳迴迵迶迷迸迹迺迻迼追迾"
    \o "迿邀邁邂邃還邅邆邇邈邉邊邋邌邍邎邏邐邑邒邓邔邕邖邗邘邙邚邛邜邝邞邟邠邡邢那邤邥邦邧邨邩邪邫邬邭邮邯邰邱邲邳邴邵邶邷邸邹邺邻邼邽邾邿郀郁郂郃郄郅郆郇郈郉郊郋郌郍郎郏郐郑郒郓郔郕郖郗郘郙郚郛郜郝郞郟郠郡郢郣郤郥郦郧部郩郪郫郬郭郮郯郰郱郲郳郴郵郶郷郸郹郺郻郼都郾"
    \o "郿醀醁醂醃醄醅醆醇醈醉醊醋醌醍醎醏醐醑醒醓醔醕醖醗醘醙醚醛醜醝醞醟醠醡醢醣醤醥醦醧醨醩醪醫醬醭醮醯醰醱醲醳醴醵醶醷醸醹醺醻醼醽醾醿釀釁釂釃釄釅釆采釈釉释釋里重野量釐金釒釓釔釕釖釗釘釙釚釛釜針釞釟釠釡釢釣釤釥釦釧釨釩釪釫釬釭釮釯釰釱釲釳釴釵釶釷釸釹釺釻釼釽釾"
    \o "釿銀銁銂銃銄銅銆銇銈銉銊銋銌銍銎銏銐銑銒銓銔銕銖銗銘銙銚銛銜銝銞銟銠銡銢銣銤銥銦銧銨銩銪銫銬銭銮銯銰銱銲銳銴銵銶銷銸銹銺銻銼銽銾銿鋀鋁鋂鋃鋄鋅鋆鋇鋈鋉鋊鋋鋌鋍鋎鋏鋐鋑鋒鋓鋔鋕鋖鋗鋘鋙鋚鋛鋜鋝鋞鋟鋠鋡鋢鋣鋤鋥鋦鋧鋨鋩鋪鋫鋬鋭鋮鋯鋰鋱鋲鋳鋴鋵鋶鋷鋸鋹鋺鋻鋼鋽鋾"
    \o "鋿鎀鎁鎂鎃鎄鎅鎆鎇鎈鎉鎊鎋鎌鎍鎎鎏鎐鎑鎒鎓鎔鎕鎖鎗鎘鎙鎚鎛鎜鎝鎞鎟鎠鎡鎢鎣鎤鎥鎦鎧鎨鎩鎪鎫鎬鎭鎮鎯鎰鎱鎲鎳鎴鎵鎶鎷鎸鎹鎺鎻鎼鎽鎾鎿鏀鏁鏂鏃鏄鏅鏆鏇鏈鏉鏊鏋鏌鏍鏎鏏鏐鏑鏒鏓鏔鏕鏖鏗鏘鏙鏚鏛鏜鏝鏞鏟鏠鏡鏢鏣鏤鏥鏦鏧鏨鏩鏪鏫鏬鏭鏮鏯鏰鏱鏲鏳鏴鏵鏶鏷鏸鏹鏺鏻鏼鏽鏾"
    \o "鏿钀钁钂钃钄钅钆钇针钉钊钋钌钍钎钏钐钑钒钓钔钕钖钗钘钙钚钛钜钝钞钟钠钡钢钣钤钥钦钧钨钩钪钫钬钭钮钯钰钱钲钳钴钵钶钷钸钹钺钻钼钽钾钿铀铁铂铃铄铅铆铇铈铉铊铋铌铍铎铏铐铑铒铓铔铕铖铗铘铙铚铛铜铝铞铟铠铡铢铣铤铥铦铧铨铩铪铫铬铭铮铯铰铱铲铳铴铵银铷铸铹铺铻铼铽链"
    \o "铿門閁閂閃閄閅閆閇閈閉閊開閌閍閎閏閐閑閒間閔閕閖閗閘閙閚閛閜閝閞閟閠閡関閣閤閥閦閧閨閩閪閫閬閭閮閯閰閱閲閳閴閵閶閷閸閹閺閻閼閽閾閿闀闁闂闃闄闅闆闇闈闉闊闋闌闍闎闏闐闑闒闓闔闕闖闗闘闙闚闛關闝闞闟闠闡闢闣闤闥闦闧门闩闪闫闬闭问闯闰闱闲闳间闵闶闷闸闹闺闻闼闽闾"
    \o "闿隀隁隂隃隄隅隆隇隈隉隊隋隌隍階随隐隑隒隓隔隕隖隗隘隙隚際障隝隞隟隠隡隢隣隤隥隦隧隨隩險隫隬隭隮隯隰隱隲隳隴隵隶隷隸隹隺隻隼隽难隿雀雁雂雃雄雅集雇雈雉雊雋雌雍雎雏雐雑雒雓雔雕雖雗雘雙雚雛雜雝雞雟雠雡離難雤雥雦雧雨雩雪雫雬雭雮雯雰雱雲雳雴雵零雷雸雹雺電雼雽雾"
    \o "雿鞀鞁鞂鞃鞄鞅鞆鞇鞈鞉鞊鞋鞌鞍鞎鞏鞐鞑鞒鞓鞔鞕鞖鞗鞘鞙鞚鞛鞜鞝鞞鞟鞠鞡鞢鞣鞤鞥鞦鞧鞨鞩鞪鞫鞬鞭鞮鞯鞰鞱鞲鞳鞴鞵鞶鞷鞸鞹鞺鞻鞼鞽鞾鞿韀韁韂韃韄韅韆韇韈韉韊韋韌韍韎韏韐韑韒韓韔韕韖韗韘韙韚韛韜韝韞韟韠韡韢韣韤韥韦韧韨韩韪韫韬韭韮韯韰韱韲音韴韵韶韷韸韹韺韻韼韽韾"
    \o "響颀颁颂颃预颅领颇颈颉颊颋颌颍颎颏颐频颒颓颔颕颖颗题颙颚颛颜额颞颟颠颡颢颣颤颥颦颧風颩颪颫颬颭颮颯颰颱颲颳颴颵颶颷颸颹颺颻颼颽颾颿飀飁飂飃飄飅飆飇飈飉飊飋飌飍风飏飐飑飒飓飔飕飖飗飘飙飚飛飜飝飞食飠飡飢飣飤飥飦飧飨飩飪飫飬飭飮飯飰飱飲飳飴飵飶飷飸飹飺飻飼飽飾"
    \o "飿馀馁馂馃馄馅馆馇馈馉馊馋馌馍馎馏馐馑馒馓馔馕首馗馘香馚馛馜馝馞馟馠馡馢馣馤馥馦馧馨馩馪馫馬馭馮馯馰馱馲馳馴馵馶馷馸馹馺馻馼馽馾馿駀駁駂駃駄駅駆駇駈駉駊駋駌駍駎駏駐駑駒駓駔駕駖駗駘駙駚駛駜駝駞駟駠駡駢駣駤駥駦駧駨駩駪駫駬駭駮駯駰駱駲駳駴駵駶駷駸駹駺駻駼駽駾"
    \o "駿骀骁骂骃骄骅骆骇骈骉骊骋验骍骎骏骐骑骒骓骔骕骖骗骘骙骚骛骜骝骞骟骠骡骢骣骤骥骦骧骨骩骪骫骬骭骮骯骰骱骲骳骴骵骶骷骸骹骺骻骼骽骾骿髀髁髂髃髄髅髆髇髈髉髊髋髌髍髎髏髐髑髒髓體髕髖髗高髙髚髛髜髝髞髟髠髡髢髣髤髥髦髧髨髩髪髫髬髭髮髯髰髱髲髳髴髵髶髷髸髹髺髻髼髽髾"
    \o "髿鮀鮁鮂鮃鮄鮅鮆鮇鮈鮉鮊鮋鮌鮍鮎鮏鮐鮑鮒鮓鮔鮕鮖鮗鮘鮙鮚鮛鮜鮝鮞鮟鮠鮡鮢鮣鮤鮥鮦鮧鮨鮩鮪鮫鮬鮭鮮鮯鮰鮱鮲鮳鮴鮵鮶鮷鮸鮹鮺鮻鮼鮽鮾鮿鯀鯁鯂鯃鯄鯅鯆鯇鯈鯉鯊鯋鯌鯍鯎鯏鯐鯑鯒鯓鯔鯕鯖鯗鯘鯙鯚鯛鯜鯝鯞鯟鯠鯡鯢鯣鯤鯥鯦鯧鯨鯩鯪鯫鯬鯭鯮鯯鯰鯱鯲鯳鯴鯵鯶鯷鯸鯹鯺鯻鯼鯽鯾"
    \o "鯿鲀鲁鲂鲃鲄鲅鲆鲇鲈鲉鲊鲋鲌鲍鲎鲏鲐鲑鲒鲓鲔鲕鲖鲗鲘鲙鲚鲛鲜鲝鲞鲟鲠鲡鲢鲣鲤鲥鲦鲧鲨鲩鲪鲫鲬鲭鲮鲯鲰鲱鲲鲳鲴鲵鲶鲷鲸鲹鲺鲻鲼鲽鲾鲿鳀鳁鳂鳃鳄鳅鳆鳇鳈鳉鳊鳋鳌鳍鳎鳏鳐鳑鳒鳓鳔鳕鳖鳗鳘鳙鳚鳛鳜鳝鳞鳟鳠鳡鳢鳣鳤鳥鳦鳧鳨鳩鳪鳫鳬鳭鳮鳯鳰鳱鳲鳳鳴鳵鳶鳷鳸鳹鳺鳻鳼鳽鳾"
    \o "鳿鶀鶁鶂鶃鶄鶅鶆鶇鶈鶉鶊鶋鶌鶍鶎鶏鶐鶑鶒鶓鶔鶕鶖鶗鶘鶙鶚鶛鶜鶝鶞鶟鶠鶡鶢鶣鶤鶥鶦鶧鶨鶩鶪鶫鶬鶭鶮鶯鶰鶱鶲鶳鶴鶵鶶鶷鶸鶹鶺鶻鶼鶽鶾鶿鷀鷁鷂鷃鷄鷅鷆鷇鷈鷉鷊鷋鷌鷍鷎鷏鷐鷑鷒鷓鷔鷕鷖鷗鷘鷙鷚鷛鷜鷝鷞鷟鷠鷡鷢鷣鷤鷥鷦鷧鷨鷩鷪鷫鷬鷭鷮鷯鷰鷱鷲鷳鷴鷵鷶鷷鷸鷹鷺鷻鷼鷽鷾"
    \o "鷿麀麁麂麃麄麅麆麇麈麉麊麋麌麍麎麏麐麑麒麓麔麕麖麗麘麙麚麛麜麝麞麟麠麡麢麣麤麥麦麧麨麩麪麫麬麭麮麯麰麱麲麳麴麵麶麷麸麹麺麻麼麽麾麿黀黁黂黃黄黅黆黇黈黉黊黋黌黍黎黏黐黑黒黓黔黕黖黗默黙黚黛黜黝點黟黠黡黢黣黤黥黦黧黨黩黪黫黬黭黮黯黰黱黲黳黴黵黶黷黸黹黺黻黼黽黾"
    \o "黿龀龁龂龃龄龅龆龇龈龉龊龋龌龍龎龏龐龑龒龓龔龕龖龗龘龙龚龛龜龝龞龟龠龡龢龣龤龥龦龧龨龩龪龫龬龭龮龯龰龱龲龳龴龵龶龷龸龹龺龻龼龽龾龿鿀鿁鿂鿃鿄鿅鿆鿇鿈鿉鿊鿋鿌鿍鿎鿏鿐鿑鿒鿓鿔鿕鿖鿗鿘鿙鿚鿛鿜鿝鿞鿟鿠鿡鿢鿣鿤鿥鿦鿧鿨鿩鿪鿫鿬鿭鿮鿯鿰鿱鿲鿳鿴鿵鿶鿷鿸鿹鿺鿻鿼鿽鿾"
    \o "鿿ꂀꂁꂂꂃꂄꂅꂆꂇꂈꂉꂊꂋꂌꂍꂎꂏꂐꂑꂒꂓꂔꂕꂖꂗꂘꂙꂚꂛꂜꂝꂞꂟꂠꂡꂢꂣꂤꂥꂦꂧꂨꂩꂪꂫꂬꂭꂮꂯꂰꂱꂲꂳꂴꂵꂶꂷꂸꂹꂺꂻꂼꂽꂾꂿꃀꃁꃂꃃꃄꃅꃆꃇꃈꃉꃊꃋꃌꃍꃎꃏꃐꃑꃒꃓꃔꃕꃖꃗꃘꃙꃚꃛꃜꃝꃞꃟꃠꃡꃢꃣꃤꃥꃦꃧꃨꃩꃪꃫꃬꃭꃮꃯꃰꃱꃲꃳꃴꃵꃶꃷꃸꃹꃺꃻꃼꃽꃾ"
    \o "ꃿꆀꆁꆂꆃꆄꆅꆆꆇꆈꆉꆊꆋꆌꆍꆎꆏꆐꆑꆒꆓꆔꆕꆖꆗꆘꆙꆚꆛꆜꆝꆞꆟꆠꆡꆢꆣꆤꆥꆦꆧꆨꆩꆪꆫꆬꆭꆮꆯꆰꆱꆲꆳꆴꆵꆶꆷꆸꆹꆺꆻꆼꆽꆾꆿꇀꇁꇂꇃꇄꇅꇆꇇꇈꇉꇊꇋꇌꇍꇎꇏꇐꇑꇒꇓꇔꇕꇖꇗꇘꇙꇚꇛꇜꇝꇞꇟꇠꇡꇢꇣꇤꇥꇦꇧꇨꇩꇪꇫꇬꇭꇮꇯꇰꇱꇲꇳꇴꇵꇶꇷꇸꇹꇺꇻꇼꇽꇾ"
    \o "ꇿꊀꊁꊂꊃꊄꊅꊆꊇꊈꊉꊊꊋꊌꊍꊎꊏꊐꊑꊒꊓꊔꊕꊖꊗꊘꊙꊚꊛꊜꊝꊞꊟꊠꊡꊢꊣꊤꊥꊦꊧꊨꊩꊪꊫꊬꊭꊮꊯꊰꊱꊲꊳꊴꊵꊶꊷꊸꊹꊺꊻꊼꊽꊾꊿꋀꋁꋂꋃꋄꋅꋆꋇꋈꋉꋊꋋꋌꋍꋎꋏꋐꋑꋒꋓꋔꋕꋖꋗꋘꋙꋚꋛꋜꋝꋞꋟꋠꋡꋢꋣꋤꋥꋦꋧꋨꋩꋪꋫꋬꋭꋮꋯꋰꋱꋲꋳꋴꋵꋶꋷꋸꋹꋺꋻꋼꋽꋾ"
    \o "ꋿꎀꎁꎂꎃꎄꎅꎆꎇꎈꎉꎊꎋꎌꎍꎎꎏꎐꎑꎒꎓꎔꎕꎖꎗꎘꎙꎚꎛꎜꎝꎞꎟꎠꎡꎢꎣꎤꎥꎦꎧꎨꎩꎪꎫꎬꎭꎮꎯꎰꎱꎲꎳꎴꎵꎶꎷꎸꎹꎺꎻꎼꎽꎾꎿꏀꏁꏂꏃꏄꏅꏆꏇꏈꏉꏊꏋꏌꏍꏎꏏꏐꏑꏒꏓꏔꏕꏖꏗꏘꏙꏚꏛꏜꏝꏞꏟꏠꏡꏢꏣꏤꏥꏦꏧꏨꏩꏪꏫꏬꏭꏮꏯꏰꏱꏲꏳꏴꏵꏶꏷꏸꏹꏺꏻꏼꏽꏾ"
    \o "ꏿꒀꒁꒂꒃꒄꒅꒆꒇꒈꒉꒊꒋꒌꓐꓑꓒꓓꓔꓕꓖꓗꓘꓙꓚꓛꓜꓝꓞꓟꓠꓡꓢꓣꓤꓥꓦꓧꓨꓩꓪꓫꓬꓭꓮꓯꓰꓱꓲꓳꓴꓵꓶꓷꓸꓹꓺꓻꓼꓽꖀꖁꖂꖃꖄꖅꖆꖇꖈꖉꖊꖋꖌꖍꖎꖏꖐꖑꖒꖓꖔꖕꖖꖗꖘꖙꖚꖛꖜꖝꖞꖟꖠꖡꖢꖣꖤꖥꖦꖧꖨꖩꖪꖫꖬꖭꖮꖯꖰꖱꖲꖳꖴꖵꖶꖷꖸꖹꖺꖻꖼꖽꖾꖿꗀꗁꗂꗃ"
    \o "ꗄꗅꗆꗇꗈꗉꗊꗋꗌꗍꗎꗏꗐꗑꗒꗓꗔꗕꗖꗗꗘꗙꗚꗛꗜꗝꗞꗟꗠꗡꗢꗣꗤꗥꗦꗧꗨꗩꗪꗫꗬꗭꗮꗯꗰꗱꗲꗳꗴꗵꗶꗷꗸꗹꗺꗻꗼꗽꗾꗿꚀꚁꚂꚃꚄꚅꚆꚇꚈꚉꚊꚋꚌꚍꚎꚏꚐꚑꚒꚓꚔꚕꚖꚗꚘꚙꚚꚛꚜꚝꚞꚟꚠꚡꚢꚣꚤꚥꚦꚧꚨꚩꚪꚫꚬꚭꚮꚯꚰꚱꚲꚳꚴꚵꚶꚷꚸꚹꚺꚻꚼꚽꚾꚿꛀꛁꛂꛃ"
    \o "ꛄꛅꛆꛇꛈꛉꛊꛋꛌꛍꛎꛏꛐꛑꛒꛓꛔꛕꛖꛗꛘꛙꛚꛛꛜꛝꛞꛟꛠꛡꛢꛣꛤꛥꞀꞁꞂꞃꞄꞅꞆꞇꞈꞋꞌꞍꞎꞏꞐꞑꞒꞓꞔꞕꞖꞗꞘꞙꞚꞛꞜꞝꞞꞟꞠꞡꞢꞣꞤꞥꞦꞧꞨꞩꞪꞫꞬꞭꞮꞯꞰꞱꞲꞳꞴꞵꞶꞷꞸꞹꞺꞻꞼꞽꞾꞿꟀꟁꟂꟃꟄꟅꟆꟇꟈꟉꟊꟋꟌꟍ꟎꟏Ꟑꟑ꟒ꟓ꟔ꟕꟖꟗꟘꟙꟚꟛꟜ꟱ꟲꟳ"
    \o "ꟴꟵꟶꟷꟸꟹꟺꟻꟼꟽꟾꟿꢀꢁꢂꢃꢄꢅꢆꢇꢈꢉꢊꢋꢌꢍꢎꢏꢐꢑꢒꢓꢔꢕꢖꢗꢘꢙꢚꢛꢜꢝꢞꢟꢠꢡꢢꢣꢤꢥꢦꢧꢨꢩꢪꢫꢬꢭꢮꢯꢰꢱꢲꢳꢴꢵꢶꢷꢸꢹꢺꢻꢼꢽꢾꢿꣀꣁꣂꣃꣅꣲꣳꣴꣵꣶꣷꣻꣽꣾꣿꦀꦁꦂꦃꦄꦅꦆꦇꦈꦉꦊꦋꦌꦍꦎꦏꦐꦑꦒꦓꦔꦕꦖꦗꦘꦙꦚꦛꦜꦝꦞꦟꦠꦡꦢꦣꦤ"
    \o "ꦥꦦꦧꦨꦩꦪꦫꦬꦭꦮꦯꦰꦱꦲꦴꦵꦶꦷꦸꦹꦺꦻꦼꦽꦾꦿꧏꧠꧡꧢꧣꧤꧥꧦꧧꧨꧩꧪꧫꧬꧭꧮꧯꧺꧻꧼꧽꧾꪀꪁꪂꪃꪄꪅꪆꪇꪈꪉꪊꪋꪌꪍꪎꪏꪐꪑꪒꪓꪔꪕꪖꪗꪘꪙꪚꪛꪜꪝꪞꪟꪠꪡꪢꪣꪤꪥꪦꪧꪨꪩꪪꪫꪬꪭꪮꪯꪰꪱꪴꪲꪳꪵꪶꪷꪸꪹꪺꪻꪼꪽꪾꫀꫂꫛꫜꫝꫠꫡꫢꫣꫤꫥꫦꫧꫨꫩꫪꫫ"
    \o "ꫬꫭꫮꫯꫲꫳꫴꫵꮀꮁꮂꮃꮄꮅꮆꮇꮈꮉꮊꮋꮌꮍꮎꮏꮐꮑꮒꮓꮔꮕꮖꮗꮘꮙꮚꮛꮜꮝꮞꮟꮠꮡꮢꮣꮤꮥꮦꮧꮨꮩꮪꮫꮬꮭꮮꮯꮰꮱꮲꮳꮴꮵꮶꮷꮸꮹꮺꮻꮼꮽꮾꮿꯀꯁꯂꯃꯄꯅꯆꯇꯈꯉꯊꯋꯌꯍꯎꯏꯐꯑꯒꯓꯔꯕꯖꯗꯘꯙꯚꯛꯜꯝꯞꯟꯠꯡꯢꯣꯤꯥꯦꯧꯨꯩꯪ검겁겂것겄겅겆겇겈겉겊겋게"
    \o "겍겎겏겐겑겒겓겔겕겖겗겘겙겚겛겜겝겞겟겠겡겢겣겤겥겦겧겨격겪겫견겭겮겯결겱겲겳겴겵겶겷겸겹겺겻겼경겾겿곀곁곂곃계곅곆곇곈곉곊곋곌곍곎곏곐곑곒곓곔곕곖곗곘곙곚곛곜곝곞곟고곡곢곣곤곥곦곧골곩곪곫곬곭곮곯곰곱곲곳곴공곶곷곸곹곺곻과곽곾곿궀궁궂궃궄궅궆궇궈궉궊궋권"
    \o "궍궎궏궐궑궒궓궔궕궖궗궘궙궚궛궜궝궞궟궠궡궢궣궤궥궦궧궨궩궪궫궬궭궮궯궰궱궲궳궴궵궶궷궸궹궺궻궼궽궾궿귀귁귂귃귄귅귆귇귈귉귊귋귌귍귎귏귐귑귒귓귔귕귖귗귘귙귚귛규귝귞귟균귡귢귣귤귥귦귧귨귩귪귫귬귭귮귯귰귱귲귳귴귵귶귷그극귺귻근귽귾귿꺀꺁꺂꺃꺄꺅꺆꺇꺈꺉꺊꺋꺌"
    \o "꺍꺎꺏꺐꺑꺒꺓꺔꺕꺖꺗꺘꺙꺚꺛꺜꺝꺞꺟꺠꺡꺢꺣꺤꺥꺦꺧꺨꺩꺪꺫꺬꺭꺮꺯꺰꺱꺲꺳꺴꺵꺶꺷꺸꺹꺺꺻꺼꺽꺾꺿껀껁껂껃껄껅껆껇껈껉껊껋껌껍껎껏껐껑껒껓껔껕껖껗께껙껚껛껜껝껞껟껠껡껢껣껤껥껦껧껨껩껪껫껬껭껮껯껰껱껲껳껴껵껶껷껸껹껺껻껼껽껾껿꾀꾁꾂꾃꾄꾅꾆꾇꾈꾉꾊꾋꾌"
    \o "꾍꾎꾏꾐꾑꾒꾓꾔꾕꾖꾗꾘꾙꾚꾛꾜꾝꾞꾟꾠꾡꾢꾣꾤꾥꾦꾧꾨꾩꾪꾫꾬꾭꾮꾯꾰꾱꾲꾳꾴꾵꾶꾷꾸꾹꾺꾻꾼꾽꾾꾿꿀꿁꿂꿃꿄꿅꿆꿇꿈꿉꿊꿋꿌꿍꿎꿏꿐꿑꿒꿓꿔꿕꿖꿗꿘꿙꿚꿛꿜꿝꿞꿟꿠꿡꿢꿣꿤꿥꿦꿧꿨꿩꿪꿫꿬꿭꿮꿯꿰꿱꿲꿳꿴꿵꿶꿷꿸꿹꿺꿻꿼꿽꿾꿿낀낁낂낃낄낅낆낇낈낉낊낋낌"
    \o "낍낎낏낐낑낒낓낔낕낖낗나낙낚낛난낝낞낟날낡낢낣낤낥낦낧남납낪낫났낭낮낯낰낱낲낳내낵낶낷낸낹낺낻낼낽낾낿냀냁냂냃냄냅냆냇냈냉냊냋냌냍냎냏냐냑냒냓냔냕냖냗냘냙냚냛냜냝냞냟냠냡냢냣냤냥냦냧냨냩냪냫냬냭냮냯냰냱냲냳냴냵냶냷냸냹냺냻냼냽냾냿놀놁놂놃놄놅놆놇놈놉놊놋놌"
    \o "농놎놏놐놑높놓놔놕놖놗놘놙놚놛놜놝놞놟놠놡놢놣놤놥놦놧놨놩놪놫놬놭놮놯놰놱놲놳놴놵놶놷놸놹놺놻놼놽놾놿뇀뇁뇂뇃뇄뇅뇆뇇뇈뇉뇊뇋뇌뇍뇎뇏뇐뇑뇒뇓뇔뇕뇖뇗뇘뇙뇚뇛뇜뇝뇞뇟뇠뇡뇢뇣뇤뇥뇦뇧뇨뇩뇪뇫뇬뇭뇮뇯뇰뇱뇲뇳뇴뇵뇶뇷뇸뇹뇺뇻뇼뇽뇾뇿늀늁늂늃늄늅늆늇늈늉늊늋늌"
    \o "늍늎늏느늑늒늓는늕늖늗늘늙늚늛늜늝늞늟늠늡늢늣늤능늦늧늨늩늪늫늬늭늮늯늰늱늲늳늴늵늶늷늸늹늺늻늼늽늾늿닀닁닂닃닄닅닆닇니닉닊닋닌닍닎닏닐닑닒닓닔닕닖닗님닙닚닛닜닝닞닟닠닡닢닣다닥닦닧단닩닪닫달닭닮닯닰닱닲닳담답닶닷닸당닺닻닼닽닾닿뎀뎁뎂뎃뎄뎅뎆뎇뎈뎉뎊뎋뎌"
    \o "뎍뎎뎏뎐뎑뎒뎓뎔뎕뎖뎗뎘뎙뎚뎛뎜뎝뎞뎟뎠뎡뎢뎣뎤뎥뎦뎧뎨뎩뎪뎫뎬뎭뎮뎯뎰뎱뎲뎳뎴뎵뎶뎷뎸뎹뎺뎻뎼뎽뎾뎿돀돁돂돃도독돆돇돈돉돊돋돌돍돎돏돐돑돒돓돔돕돖돗돘동돚돛돜돝돞돟돠돡돢돣돤돥돦돧돨돩돪돫돬돭돮돯돰돱돲돳돴돵돶돷돸돹돺돻돼돽돾돿뒀뒁뒂뒃뒄뒅뒆뒇뒈뒉뒊뒋뒌"
    \o "뒍뒎뒏뒐뒑뒒뒓뒔뒕뒖뒗뒘뒙뒚뒛뒜뒝뒞뒟뒠뒡뒢뒣뒤뒥뒦뒧뒨뒩뒪뒫뒬뒭뒮뒯뒰뒱뒲뒳뒴뒵뒶뒷뒸뒹뒺뒻뒼뒽뒾뒿듀듁듂듃듄듅듆듇듈듉듊듋듌듍듎듏듐듑듒듓듔듕듖듗듘듙듚듛드득듞듟든듡듢듣들듥듦듧듨듩듪듫듬듭듮듯듰등듲듳듴듵듶듷듸듹듺듻듼듽듾듿떀떁떂떃떄떅떆떇떈떉떊떋떌"
    \o "떍떎떏떐떑떒떓떔떕떖떗떘떙떚떛떜떝떞떟떠떡떢떣떤떥떦떧떨떩떪떫떬떭떮떯떰떱떲떳떴떵떶떷떸떹떺떻떼떽떾떿뗀뗁뗂뗃뗄뗅뗆뗇뗈뗉뗊뗋뗌뗍뗎뗏뗐뗑뗒뗓뗔뗕뗖뗗뗘뗙뗚뗛뗜뗝뗞뗟뗠뗡뗢뗣뗤뗥뗦뗧뗨뗩뗪뗫뗬뗭뗮뗯뗰뗱뗲뗳뗴뗵뗶뗷뗸뗹뗺뗻뗼뗽뗾뗿뚀뚁뚂뚃뚄뚅뚆뚇뚈뚉뚊뚋뚌"
    \o "뚍뚎뚏뚐뚑뚒뚓뚔뚕뚖뚗뚘뚙뚚뚛뚜뚝뚞뚟뚠뚡뚢뚣뚤뚥뚦뚧뚨뚩뚪뚫뚬뚭뚮뚯뚰뚱뚲뚳뚴뚵뚶뚷뚸뚹뚺뚻뚼뚽뚾뚿뛀뛁뛂뛃뛄뛅뛆뛇뛈뛉뛊뛋뛌뛍뛎뛏뛐뛑뛒뛓뛔뛕뛖뛗뛘뛙뛚뛛뛜뛝뛞뛟뛠뛡뛢뛣뛤뛥뛦뛧뛨뛩뛪뛫뛬뛭뛮뛯뛰뛱뛲뛳뛴뛵뛶뛷뛸뛹뛺뛻뛼뛽뛾뛿란랁랂랃랄랅랆랇랈랉랊랋람"
    \o "랍랎랏랐랑랒랓랔랕랖랗래랙랚랛랜랝랞랟랠랡랢랣랤랥랦랧램랩랪랫랬랭랮랯랰랱랲랳랴략랶랷랸랹랺랻랼랽랾랿럀럁럂럃럄럅럆럇럈량럊럋럌럍럎럏럐럑럒럓럔럕럖럗럘럙럚럛럜럝럞럟럠럡럢럣럤럥럦럧럨럩럪럫러럭럮럯런럱럲럳럴럵럶럷럸럹럺럻럼럽럾럿뢀뢁뢂뢃뢄뢅뢆뢇뢈뢉뢊뢋뢌"
    \o "뢍뢎뢏뢐뢑뢒뢓뢔뢕뢖뢗뢘뢙뢚뢛뢜뢝뢞뢟뢠뢡뢢뢣뢤뢥뢦뢧뢨뢩뢪뢫뢬뢭뢮뢯뢰뢱뢲뢳뢴뢵뢶뢷뢸뢹뢺뢻뢼뢽뢾뢿룀룁룂룃룄룅룆룇룈룉룊룋료룍룎룏룐룑룒룓룔룕룖룗룘룙룚룛룜룝룞룟룠룡룢룣룤룥룦룧루룩룪룫룬룭룮룯룰룱룲룳룴룵룶룷룸룹룺룻룼룽룾룿릀릁릂릃름릅릆릇릈릉릊릋릌"
    \o "릍릎릏릐릑릒릓릔릕릖릗릘릙릚릛릜릝릞릟릠릡릢릣릤릥릦릧릨릩릪릫리릭릮릯린릱릲릳릴릵릶릷릸릹릺릻림립릾릿맀링맂맃맄맅맆맇마막맊맋만맍많맏말맑맒맓맔맕맖맗맘맙맚맛맜망맞맟맠맡맢맣매맥맦맧맨맩맪맫맬맭맮맯맰맱맲맳맴맵맶맷맸맹맺맻맼맽맾맿몀몁몂몃몄명몆몇몈몉몊몋몌"
    \o "몍몎몏몐몑몒몓몔몕몖몗몘몙몚몛몜몝몞몟몠몡몢몣몤몥몦몧모목몪몫몬몭몮몯몰몱몲몳몴몵몶몷몸몹몺못몼몽몾몿뫀뫁뫂뫃뫄뫅뫆뫇뫈뫉뫊뫋뫌뫍뫎뫏뫐뫑뫒뫓뫔뫕뫖뫗뫘뫙뫚뫛뫜뫝뫞뫟뫠뫡뫢뫣뫤뫥뫦뫧뫨뫩뫪뫫뫬뫭뫮뫯뫰뫱뫲뫳뫴뫵뫶뫷뫸뫹뫺뫻뫼뫽뫾뫿뮀뮁뮂뮃뮄뮅뮆뮇뮈뮉뮊뮋뮌"
    \o "뮍뮎뮏뮐뮑뮒뮓뮔뮕뮖뮗뮘뮙뮚뮛뮜뮝뮞뮟뮠뮡뮢뮣뮤뮥뮦뮧뮨뮩뮪뮫뮬뮭뮮뮯뮰뮱뮲뮳뮴뮵뮶뮷뮸뮹뮺뮻뮼뮽뮾뮿므믁믂믃믄믅믆믇믈믉믊믋믌믍믎믏믐믑믒믓믔믕믖믗믘믙믚믛믜믝믞믟믠믡믢믣믤믥믦믧믨믩믪믫믬믭믮믯믰믱믲믳믴믵믶믷미믹믺믻민믽믾믿벀벁벂벃버벅벆벇번벉벊벋벌"
    \o "벍벎벏벐벑벒벓범법벖벗벘벙벚벛벜벝벞벟베벡벢벣벤벥벦벧벨벩벪벫벬벭벮벯벰벱벲벳벴벵벶벷벸벹벺벻벼벽벾벿변볁볂볃별볅볆볇볈볉볊볋볌볍볎볏볐병볒볓볔볕볖볗볘볙볚볛볜볝볞볟볠볡볢볣볤볥볦볧볨볩볪볫볬볭볮볯볰볱볲볳보복볶볷본볹볺볻볼볽볾볿부북붂붃분붅붆붇불붉붊붋붌"
    \o "붍붎붏붐붑붒붓붔붕붖붗붘붙붚붛붜붝붞붟붠붡붢붣붤붥붦붧붨붩붪붫붬붭붮붯붰붱붲붳붴붵붶붷붸붹붺붻붼붽붾붿뷀뷁뷂뷃뷄뷅뷆뷇뷈뷉뷊뷋뷌뷍뷎뷏뷐뷑뷒뷓뷔뷕뷖뷗뷘뷙뷚뷛뷜뷝뷞뷟뷠뷡뷢뷣뷤뷥뷦뷧뷨뷩뷪뷫뷬뷭뷮뷯뷰뷱뷲뷳뷴뷵뷶뷷뷸뷹뷺뷻뷼뷽뷾뷿뺀뺁뺂뺃뺄뺅뺆뺇뺈뺉뺊뺋뺌"
    \o "뺍뺎뺏뺐뺑뺒뺓뺔뺕뺖뺗뺘뺙뺚뺛뺜뺝뺞뺟뺠뺡뺢뺣뺤뺥뺦뺧뺨뺩뺪뺫뺬뺭뺮뺯뺰뺱뺲뺳뺴뺵뺶뺷뺸뺹뺺뺻뺼뺽뺾뺿뻀뻁뻂뻃뻄뻅뻆뻇뻈뻉뻊뻋뻌뻍뻎뻏뻐뻑뻒뻓뻔뻕뻖뻗뻘뻙뻚뻛뻜뻝뻞뻟뻠뻡뻢뻣뻤뻥뻦뻧뻨뻩뻪뻫뻬뻭뻮뻯뻰뻱뻲뻳뻴뻵뻶뻷뻸뻹뻺뻻뻼뻽뻾뻿뾀뾁뾂뾃뾄뾅뾆뾇뾈뾉뾊뾋뾌"
    \o "뾍뾎뾏뾐뾑뾒뾓뾔뾕뾖뾗뾘뾙뾚뾛뾜뾝뾞뾟뾠뾡뾢뾣뾤뾥뾦뾧뾨뾩뾪뾫뾬뾭뾮뾯뾰뾱뾲뾳뾴뾵뾶뾷뾸뾹뾺뾻뾼뾽뾾뾿뿀뿁뿂뿃뿄뿅뿆뿇뿈뿉뿊뿋뿌뿍뿎뿏뿐뿑뿒뿓뿔뿕뿖뿗뿘뿙뿚뿛뿜뿝뿞뿟뿠뿡뿢뿣뿤뿥뿦뿧뿨뿩뿪뿫뿬뿭뿮뿯뿰뿱뿲뿳뿴뿵뿶뿷뿸뿹뿺뿻뿼뿽뿾뿿삀삁삂삃삄삅삆삇삈삉삊삋삌"
    \o "삍삎삏삐삑삒삓삔삕삖삗삘삙삚삛삜삝삞삟삠삡삢삣삤삥삦삧삨삩삪삫사삭삮삯산삱삲삳살삵삶삷삸삹삺삻삼삽삾삿샀상샂샃샄샅샆샇새색샊샋샌샍샎샏샐샑샒샓샔샕샖샗샘샙샚샛샜생샞샟샠샡샢샣샤샥샦샧샨샩샪샫샬샭샮샯샰샱샲샳샴샵샶샷샸샹샺샻샼샽샾샿솀솁솂솃솄솅솆솇솈솉솊솋소"
    \o "속솎솏손솑솒솓솔솕솖솗솘솙솚솛솜솝솞솟솠송솢솣솤솥솦솧솨솩솪솫솬솭솮솯솰솱솲솳솴솵솶솷솸솹솺솻솼솽솾솿쇀쇁쇂쇃쇄쇅쇆쇇쇈쇉쇊쇋쇌쇍쇎쇏쇐쇑쇒쇓쇔쇕쇖쇗쇘쇙쇚쇛쇜쇝쇞쇟쇠쇡쇢쇣쇤쇥쇦쇧쇨쇩쇪쇫쇬쇭쇮쇯쇰쇱쇲쇳쇴쇵쇶쇷쇸쇹쇺쇻쇼쇽쇾쇿슀슁슂슃슄슅슆슇슈슉슊슋슌"
    \o "슍슎슏슐슑슒슓슔슕슖슗슘슙슚슛슜슝슞슟슠슡슢슣스슥슦슧슨슩슪슫슬슭슮슯슰슱슲슳슴습슶슷슸승슺슻슼슽슾슿싀싁싂싃싄싅싆싇싈싉싊싋싌싍싎싏싐싑싒싓싔싕싖싗싘싙싚싛시식싞싟신싡싢싣실싥싦싧싨싩싪싫심십싮싯싰싱싲싳싴싵싶싷싸싹싺싻싼싽싾싿쎀쎁쎂쎃쎄쎅쎆쎇쎈쎉쎊쎋쎌"
    \o "쎍쎎쎏쎐쎑쎒쎓쎔쎕쎖쎗쎘쎙쎚쎛쎜쎝쎞쎟쎠쎡쎢쎣쎤쎥쎦쎧쎨쎩쎪쎫쎬쎭쎮쎯쎰쎱쎲쎳쎴쎵쎶쎷쎸쎹쎺쎻쎼쎽쎾쎿쏀쏁쏂쏃쏄쏅쏆쏇쏈쏉쏊쏋쏌쏍쏎쏏쏐쏑쏒쏓쏔쏕쏖쏗쏘쏙쏚쏛쏜쏝쏞쏟쏠쏡쏢쏣쏤쏥쏦쏧쏨쏩쏪쏫쏬쏭쏮쏯쏰쏱쏲쏳쏴쏵쏶쏷쏸쏹쏺쏻쏼쏽쏾쏿쒀쒁쒂쒃쒄쒅쒆쒇쒈쒉쒊쒋쒌"
    \o "쒍쒎쒏쒐쒑쒒쒓쒔쒕쒖쒗쒘쒙쒚쒛쒜쒝쒞쒟쒠쒡쒢쒣쒤쒥쒦쒧쒨쒩쒪쒫쒬쒭쒮쒯쒰쒱쒲쒳쒴쒵쒶쒷쒸쒹쒺쒻쒼쒽쒾쒿쓀쓁쓂쓃쓄쓅쓆쓇쓈쓉쓊쓋쓌쓍쓎쓏쓐쓑쓒쓓쓔쓕쓖쓗쓘쓙쓚쓛쓜쓝쓞쓟쓠쓡쓢쓣쓤쓥쓦쓧쓨쓩쓪쓫쓬쓭쓮쓯쓰쓱쓲쓳쓴쓵쓶쓷쓸쓹쓺쓻쓼쓽쓾쓿얀얁얂얃얄얅얆얇얈얉얊얋얌"
    \o "얍얎얏얐양얒얓얔얕얖얗얘얙얚얛얜얝얞얟얠얡얢얣얤얥얦얧얨얩얪얫얬얭얮얯얰얱얲얳어억얶얷언얹얺얻얼얽얾얿엀엁엂엃엄업없엇었엉엊엋엌엍엎엏에엑엒엓엔엕엖엗엘엙엚엛엜엝엞엟엠엡엢엣엤엥엦엧엨엩엪엫여역엮엯연엱엲엳열엵엶엷엸엹엺엻염엽엾엿욀욁욂욃욄욅욆욇욈욉욊욋욌"
    \o "욍욎욏욐욑욒욓요욕욖욗욘욙욚욛욜욝욞욟욠욡욢욣욤욥욦욧욨용욪욫욬욭욮욯우욱욲욳운욵욶욷울욹욺욻욼욽욾욿움웁웂웃웄웅웆웇웈웉웊웋워웍웎웏원웑웒웓월웕웖웗웘웙웚웛웜웝웞웟웠웡웢웣웤웥웦웧웨웩웪웫웬웭웮웯웰웱웲웳웴웵웶웷웸웹웺웻웼웽웾웿잀잁잂잃임입잆잇있잉잊잋잌"
    \o "잍잎잏자작잒잓잔잕잖잗잘잙잚잛잜잝잞잟잠잡잢잣잤장잦잧잨잩잪잫재잭잮잯잰잱잲잳잴잵잶잷잸잹잺잻잼잽잾잿쟀쟁쟂쟃쟄쟅쟆쟇쟈쟉쟊쟋쟌쟍쟎쟏쟐쟑쟒쟓쟔쟕쟖쟗쟘쟙쟚쟛쟜쟝쟞쟟쟠쟡쟢쟣쟤쟥쟦쟧쟨쟩쟪쟫쟬쟭쟮쟯쟰쟱쟲쟳쟴쟵쟶쟷쟸쟹쟺쟻쟼쟽쟾쟿좀좁좂좃좄종좆좇좈좉좊좋좌"
    \o "좍좎좏좐좑좒좓좔좕좖좗좘좙좚좛좜좝좞좟좠좡좢좣좤좥좦좧좨좩좪좫좬좭좮좯좰좱좲좳좴좵좶좷좸좹좺좻좼좽좾좿죀죁죂죃죄죅죆죇죈죉죊죋죌죍죎죏죐죑죒죓죔죕죖죗죘죙죚죛죜죝죞죟죠죡죢죣죤죥죦죧죨죩죪죫죬죭죮죯죰죱죲죳죴죵죶죷죸죹죺죻주죽죾죿즀즁즂즃즄즅즆즇즈즉즊즋즌"
    \o "즍즎즏즐즑즒즓즔즕즖즗즘즙즚즛즜증즞즟즠즡즢즣즤즥즦즧즨즩즪즫즬즭즮즯즰즱즲즳즴즵즶즷즸즹즺즻즼즽즾즿지직짂짃진짅짆짇질짉짊짋짌짍짎짏짐집짒짓짔징짖짗짘짙짚짛짜짝짞짟짠짡짢짣짤짥짦짧짨짩짪짫짬짭짮짯짰짱짲짳짴짵짶짷째짹짺짻짼짽짾짿쪀쪁쪂쪃쪄쪅쪆쪇쪈쪉쪊쪋쪌"
    \o "쪍쪎쪏쪐쪑쪒쪓쪔쪕쪖쪗쪘쪙쪚쪛쪜쪝쪞쪟쪠쪡쪢쪣쪤쪥쪦쪧쪨쪩쪪쪫쪬쪭쪮쪯쪰쪱쪲쪳쪴쪵쪶쪷쪸쪹쪺쪻쪼쪽쪾쪿쫀쫁쫂쫃쫄쫅쫆쫇쫈쫉쫊쫋쫌쫍쫎쫏쫐쫑쫒쫓쫔쫕쫖쫗쫘쫙쫚쫛쫜쫝쫞쫟쫠쫡쫢쫣쫤쫥쫦쫧쫨쫩쫪쫫쫬쫭쫮쫯쫰쫱쫲쫳쫴쫵쫶쫷쫸쫹쫺쫻쫼쫽쫾쫿쮀쮁쮂쮃쮄쮅쮆쮇쮈쮉쮊쮋쮌"
    \o "쮍쮎쮏쮐쮑쮒쮓쮔쮕쮖쮗쮘쮙쮚쮛쮜쮝쮞쮟쮠쮡쮢쮣쮤쮥쮦쮧쮨쮩쮪쮫쮬쮭쮮쮯쮰쮱쮲쮳쮴쮵쮶쮷쮸쮹쮺쮻쮼쮽쮾쮿쯀쯁쯂쯃쯄쯅쯆쯇쯈쯉쯊쯋쯌쯍쯎쯏쯐쯑쯒쯓쯔쯕쯖쯗쯘쯙쯚쯛쯜쯝쯞쯟쯠쯡쯢쯣쯤쯥쯦쯧쯨쯩쯪쯫쯬쯭쯮쯯쯰쯱쯲쯳쯴쯵쯶쯷쯸쯹쯺쯻쯼쯽쯾쯿첀첁첂첃첄첅첆첇첈첉첊첋첌"
    \o "첍첎첏첐첑첒첓첔첕첖첗처척첚첛천첝첞첟철첡첢첣첤첥첦첧첨첩첪첫첬청첮첯첰첱첲첳체첵첶첷첸첹첺첻첼첽첾첿쳀쳁쳂쳃쳄쳅쳆쳇쳈쳉쳊쳋쳌쳍쳎쳏쳐쳑쳒쳓쳔쳕쳖쳗쳘쳙쳚쳛쳜쳝쳞쳟쳠쳡쳢쳣쳤쳥쳦쳧쳨쳩쳪쳫쳬쳭쳮쳯쳰쳱쳲쳳쳴쳵쳶쳷쳸쳹쳺쳻쳼쳽쳾쳿춀춁춂춃춄춅춆춇춈춉춊춋춌"
    \o "춍춎춏춐춑춒춓추축춖춗춘춙춚춛출춝춞춟춠춡춢춣춤춥춦춧춨충춪춫춬춭춮춯춰춱춲춳춴춵춶춷춸춹춺춻춼춽춾춿췀췁췂췃췄췅췆췇췈췉췊췋췌췍췎췏췐췑췒췓췔췕췖췗췘췙췚췛췜췝췞췟췠췡췢췣췤췥췦췧취췩췪췫췬췭췮췯췰췱췲췳췴췵췶췷췸췹췺췻췼췽췾췿캀캁캂캃캄캅캆캇캈캉캊캋캌"
    \o "캍캎캏캐캑캒캓캔캕캖캗캘캙캚캛캜캝캞캟캠캡캢캣캤캥캦캧캨캩캪캫캬캭캮캯캰캱캲캳캴캵캶캷캸캹캺캻캼캽캾캿컀컁컂컃컄컅컆컇컈컉컊컋컌컍컎컏컐컑컒컓컔컕컖컗컘컙컚컛컜컝컞컟컠컡컢컣커컥컦컧컨컩컪컫컬컭컮컯컰컱컲컳컴컵컶컷컸컹컺컻컼컽컾컿쾀쾁쾂쾃쾄쾅쾆쾇쾈쾉쾊쾋쾌"
    \o "쾍쾎쾏쾐쾑쾒쾓쾔쾕쾖쾗쾘쾙쾚쾛쾜쾝쾞쾟쾠쾡쾢쾣쾤쾥쾦쾧쾨쾩쾪쾫쾬쾭쾮쾯쾰쾱쾲쾳쾴쾵쾶쾷쾸쾹쾺쾻쾼쾽쾾쾿쿀쿁쿂쿃쿄쿅쿆쿇쿈쿉쿊쿋쿌쿍쿎쿏쿐쿑쿒쿓쿔쿕쿖쿗쿘쿙쿚쿛쿜쿝쿞쿟쿠쿡쿢쿣쿤쿥쿦쿧쿨쿩쿪쿫쿬쿭쿮쿯쿰쿱쿲쿳쿴쿵쿶쿷쿸쿹쿺쿻쿼쿽쿾쿿킀킁킂킃킄킅킆킇킈킉킊킋킌"
    \o "킍킎킏킐킑킒킓킔킕킖킗킘킙킚킛킜킝킞킟킠킡킢킣키킥킦킧킨킩킪킫킬킭킮킯킰킱킲킳킴킵킶킷킸킹킺킻킼킽킾킿타탁탂탃탄탅탆탇탈탉탊탋탌탍탎탏탐탑탒탓탔탕탖탗탘탙탚탛태택탞탟탠탡탢탣탤탥탦탧탨탩탪탫탬탭탮탯탰탱탲탳탴탵탶탷탸탹탺탻탼탽탾탿톀톁톂톃톄톅톆톇톈톉톊톋톌"
    \o "톍톎톏톐톑톒톓톔톕톖톗톘톙톚톛톜톝톞톟토톡톢톣톤톥톦톧톨톩톪톫톬톭톮톯톰톱톲톳톴통톶톷톸톹톺톻톼톽톾톿퇀퇁퇂퇃퇄퇅퇆퇇퇈퇉퇊퇋퇌퇍퇎퇏퇐퇑퇒퇓퇔퇕퇖퇗퇘퇙퇚퇛퇜퇝퇞퇟퇠퇡퇢퇣퇤퇥퇦퇧퇨퇩퇪퇫퇬퇭퇮퇯퇰퇱퇲퇳퇴퇵퇶퇷퇸퇹퇺퇻퇼퇽퇾퇿튀튁튂튃튄튅튆튇튈튉튊튋튌"
    \o "튍튎튏튐튑튒튓튔튕튖튗튘튙튚튛튜튝튞튟튠튡튢튣튤튥튦튧튨튩튪튫튬튭튮튯튰튱튲튳튴튵튶튷트특튺튻튼튽튾튿틀틁틂틃틄틅틆틇틈틉틊틋틌틍틎틏틐틑틒틓틔틕틖틗틘틙틚틛틜틝틞틟틠틡틢틣틤틥틦틧틨틩틪틫틬틭틮틯티틱틲틳틴틵틶틷틸틹틺틻틼틽틾틿펀펁펂펃펄펅펆펇펈펉펊펋펌"
    \o "펍펎펏펐펑펒펓펔펕펖펗페펙펚펛펜펝펞펟펠펡펢펣펤펥펦펧펨펩펪펫펬펭펮펯펰펱펲펳펴펵펶펷편펹펺펻펼펽펾펿폀폁폂폃폄폅폆폇폈평폊폋폌폍폎폏폐폑폒폓폔폕폖폗폘폙폚폛폜폝폞폟폠폡폢폣폤폥폦폧폨폩폪폫포폭폮폯폰폱폲폳폴폵폶폷폸폹폺폻폼폽폾폿풀풁풂풃풄풅풆풇품풉풊풋풌"
    \o "풍풎풏풐풑풒풓풔풕풖풗풘풙풚풛풜풝풞풟풠풡풢풣풤풥풦풧풨풩풪풫풬풭풮풯풰풱풲풳풴풵풶풷풸풹풺풻풼풽풾풿퓀퓁퓂퓃퓄퓅퓆퓇퓈퓉퓊퓋퓌퓍퓎퓏퓐퓑퓒퓓퓔퓕퓖퓗퓘퓙퓚퓛퓜퓝퓞퓟퓠퓡퓢퓣퓤퓥퓦퓧퓨퓩퓪퓫퓬퓭퓮퓯퓰퓱퓲퓳퓴퓵퓶퓷퓸퓹퓺퓻퓼퓽퓾퓿햀햁햂햃햄햅햆햇했행햊햋햌"
    \o "햍햎햏햐햑햒햓햔햕햖햗햘햙햚햛햜햝햞햟햠햡햢햣햤향햦햧햨햩햪햫햬햭햮햯햰햱햲햳햴햵햶햷햸햹햺햻햼햽햾햿헀헁헂헃헄헅헆헇허헉헊헋헌헍헎헏헐헑헒헓헔헕헖헗험헙헚헛헜헝헞헟헠헡헢헣헤헥헦헧헨헩헪헫헬헭헮헯헰헱헲헳헴헵헶헷헸헹헺헻헼헽헾헿횀횁횂횃횄횅횆횇횈횉횊횋회"
    \o "획횎횏횐횑횒횓횔횕횖횗횘횙횚횛횜횝횞횟횠횡횢횣횤횥횦횧효횩횪횫횬횭횮횯횰횱횲횳횴횵횶횷횸횹횺횻횼횽횾횿훀훁훂훃후훅훆훇훈훉훊훋훌훍훎훏훐훑훒훓훔훕훖훗훘훙훚훛훜훝훞훟훠훡훢훣훤훥훦훧훨훩훪훫훬훭훮훯훰훱훲훳훴훵훶훷훸훹훺훻훼훽훾훿힀힁힂힃힄힅힆힇히힉힊힋힌"
    \o "힍힎힏힐힑힒힓힔힕힖힗힘힙힚힛힜힝힞힟힠힡힢힣ힰힱힲힳힴힵힶힷힸힹힺힻힼힽힾힿퟀퟁퟂퟃퟄퟅퟆퟋퟌퟍퟎퟏퟐퟑퟒퟓퟔퟕퟖퟗퟘퟙퟚퟛퟜퟝퟞퟟퟠퟡퟢퟣퟤퟥퟦퟧퟨퟩퟪퟫퟬퟭퟮퟯퟰퟱퟲퟳퟴퟵퟶퟷퟸퟹퟺퟻ呂女廬旅濾礪閭驪麗黎力曆歷轢年憐戀撚漣煉璉秊練聯輦蓮連鍊列劣咽烈裂"
    \o "說廉念捻殮簾獵令囹寧嶺怜玲瑩羚聆鈴零靈領例禮醴隸惡了僚寮尿料樂燎療蓼遼龍暈阮劉杻柳流溜琉留硫紐類六戮陸倫崙淪輪律慄栗率隆利吏履易李梨泥理痢罹裏裡里離匿溺吝燐璘藺隣鱗麟林淋臨立笠粒狀炙識什茶刺婢嬨廒廙彩徭惘慎愈憎慠懲戴揄搜摒敖晴朗望杖歹殺流滛滋漢瀞煮瞧爵犯猪"
    \o "瑱甆画瘝瘟益盛直睊着磌窱節类絛練缾者荒華蝹襁覆視調諸請謁諾諭謹變贈輸遲醙鉶陼難靖韛響頋頻鬒龜𢡊𢡄𣏕㮝䀘䀹𥉉𥳐𧻓齃龎ﮀﮁﮂﮃﮄﮅﮆﮇﮈﮉﮊﮋﮌﮍﮎﮏﮐﮑﮒﮓﮔﮕﮖﮗﮘﮙﮚﮛﮜﮝﮞﮟﮠﮡﮢﮣﮤﮥﮦﮧﮨﮩﮪﮫﮬﮭﮮﮯﮰﮱﯓﯔﯕﯖﯗﯘﯙﯚﯛﯜﯝﯞﯟﯠﯡﯢﯣﯤﯥﯦﯧ"
    \o "ﯨﯩﯪﯫﯬﯭﯮﯯﯰﯱﯲﯳﯴﯵﯶﯷﯸﯹﯺﯻﯼﯽﯾﯿﲀﲁﲂﲃﲄﲅﲆﲇﲈﲉﲊﲋﲌﲍﲎﲏﲐﲑﲒﲓﲔﲕﲖﲗﲘﲙﲚﲛﲜﲝﲞﲟﲠﲡﲢﲣﲤﲥﲦﲧﲨﲩﲪﲫﲬﲭﲮﲯﲰﲱﲲﲳﲴﲵﲶﲷﲸﲹﲺﲻﲼﲽﲾﲿﳀﳁﳂﳃﳄﳅﳆﳇﳈﳉﳊﳋﳌﳍﳎﳏﳐﳑﳒﳓﳔﳕﳖﳗﳘﳙﳚﳛﳜﳝﳞﳟﳠﳡﳢﳣﳤﳥﳦﳧ"
    \o "ﳨﳩﳪﳫﳬﳭﳮﳯﳰﳱﳲﳳﳴﳵﳶﳷﳸﳹﳺﳻﳼﳽﳾﳿﶀﶁﶂﶃﶄﶅﶆﶇﶈﶉﶊﶋﶌﶍﶎﶏﶒﶓﶔﶕﶖﶗﶘﶙﶚﶛﶜﶝﶞﶟﶠﶡﶢﶣﶤﶥﶦﶧﶨﶩﶪﶫﶬﶭﶮﶯﶰﶱﶲﶳﶴﶵﶶﶷﶸﶹﶺﶻﶼﶽﶾﶿﷀﷁﷂﷃﷄﷅﷆﷇﷰﷱﷲﷳﷴﷵﷶﷷﷸﷹﷺﷻﺀﺁﺂﺃﺄﺅﺆﺇﺈﺉﺊﺋﺌﺍﺎﺏﺐﺑﺒﺓﺔﺕ"
    \o "ﺖﺗﺘﺙﺚﺛﺜﺝﺞﺟﺠﺡﺢﺣﺤﺥﺦﺧﺨﺩﺪﺫﺬﺭﺮﺯﺰﺱﺲﺳﺴﺵﺶﺷﺸﺹﺺﺻﺼﺽﺾﺿﻀﻁﻂﻃﻄﻅﻆﻇﻈﻉﻊﻋﻌﻍﻎﻏﻐﻑﻒﻓﻔﻕﻖﻗﻘﻙﻚﻛﻜﻝﻞﻟﻠﻡﻢﻣﻤﻥﻦﻧﻨﻩﻪﻫﻬﻭﻮﻯﻰﻱﻲﻳﻴﻵﻶﻷﻸﻹﻺﻻﻼﾀﾁﾂﾃﾄﾅﾆﾇﾈﾉﾊﾋﾌﾍﾎﾏﾐﾑﾒﾓﾔﾕﾖﾗﾘ"
    \o "ﾙﾚﾛﾜﾝﾞﾟﾠﾡﾢﾣﾤﾥﾦﾧﾨﾩﾪﾫﾬﾭﾮﾯﾰﾱﾲﾳﾴﾵﾶﾷﾸﾹﾺﾻﾼﾽﾾￂￃￄￅￆￇￊￋￌￍￎￏￒￓￔￕￖￗￚￛￜ"

AlphabeticBeyondBmp ==
    "𰂀𰂁𰂂𰂃𰂄𰂅𰂆𰂇𰂈𰂉𰂊𰂋𰂌𰂍𰂎𰂏𰂐𰂑𰂒𰂓𰂔𰂕𰂖𰂗𰂘𰂙𰂚𰂛𰂜𰂝𰂞𰂟𰂠𰂡𰂢𰂣𰂤𰂥𰂦𰂧𰂨𰂩𰂪𰂫𰂬𰂭𰂮𰂯𰂰𰂱𰂲𰂳𰂴𰂵𰂶𰂷𰂸𰂹𰂺𰂻𰂼𰂽𰂾𰂿"
    \o "𰃀𰃁𰃂𰃃𰃄𰃅𰃆𰃇𰃈𰃉𰃊𰃋𰃌𰃍𰃎𰃏𰃐𰃑𰃒𰃓𰃔𰃕𰃖𰃗𰃘𰃙𰃚𰃛𰃜𰃝𰃞𰃟𰃠𰃡𰃢𰃣𰃤𰃥𰃦𰃧𰃨𰃩𰃪𰃫𰃬𰃭𰃮𰃯𰃰𰃱𰃲𰃳𰃴𰃵𰃶𰃷𰃸𰃹𰃺𰃻𰃼𰃽𰃾𰃿"
    \o "𰆀𰆁𰆂𰆃𰆄𰆅𰆆𰆇𰆈𰆉𰆊𰆋𰆌𰆍𰆎𰆏𰆐𰆑𰆒𰆓𰆔𰆕𰆖𰆗𰆘𰆙𰆚𰆛𰆜𰆝𰆞𰆟𰆠𰆡𰆢𰆣𰆤𰆥𰆦𰆧𰆨𰆩𰆪𰆫𰆬𰆭𰆮𰆯𰆰𰆱𰆲𰆳𰆴𰆵𰆶𰆷𰆸𰆹𰆺𰆻𰆼𰆽𰆾𰆿"
    \o "𰇀𰇁𰇂𰇃𰇄𰇅𰇆𰇇𰇈𰇉𰇊𰇋𰇌𰇍𰇎𰇏𰇐𰇑𰇒𰇓𰇔𰇕𰇖𰇗𰇘𰇙𰇚𰇛𰇜𰇝𰇞𰇟𰇠𰇡𰇢𰇣𰇤𰇥𰇦𰇧𰇨𰇩𰇪𰇫𰇬𰇭𰇮𰇯𰇰𰇱𰇲𰇳𰇴𰇵𰇶𰇷𰇸𰇹𰇺𰇻𰇼𰇽𰇾𰇿"
    \o "𰊀𰊁𰊂𰊃𰊄𰊅𰊆𰊇𰊈𰊉𰊊𰊋𰊌𰊍𰊎𰊏𰊐𰊑𰊒𰊓𰊔𰊕𰊖𰊗𰊘𰊙𰊚𰊛𰊜𰊝𰊞𰊟𰊠𰊡𰊢𰊣𰊤𰊥𰊦𰊧𰊨𰊩𰊪𰊫𰊬𰊭𰊮𰊯𰊰𰊱𰊲𰊳𰊴𰊵𰊶𰊷𰊸𰊹𰊺𰊻𰊼𰊽𰊾𰊿"
    \o "𰋀𰋁𰋂𰋃𰋄𰋅𰋆𰋇𰋈𰋉𰋊𰋋𰋌𰋍𰋎𰋏𰋐𰋑𰋒𰋓𰋔𰋕𰋖𰋗𰋘𰋙𰋚𰋛𰋜𰋝𰋞𰋟𰋠𰋡𰋢𰋣𰋤𰋥𰋦𰋧𰋨𰋩𰋪𰋫𰋬𰋭𰋮𰋯𰋰𰋱𰋲𰋳𰋴𰋵𰋶𰋷𰋸𰋹𰋺𰋻𰋼𰋽𰋾𰋿"
    \o "𰎀𰎁𰎂𰎃𰎄𰎅𰎆𰎇𰎈𰎉𰎊𰎋𰎌𰎍𰎎𰎏𰎐𰎑𰎒𰎓𰎔𰎕𰎖𰎗𰎘𰎙𰎚𰎛𰎜𰎝𰎞𰎟𰎠𰎡𰎢𰎣𰎤𰎥𰎦𰎧𰎨𰎩𰎪𰎫𰎬𰎭𰎮𰎯𰎰𰎱𰎲𰎳𰎴𰎵𰎶𰎷𰎸𰎹𰎺𰎻𰎼𰎽𰎾𰎿"
    \o "𰏀𰏁𰏂𰏃𰏄𰏅𰏆𰏇𰏈𰏉𰏊𰏋𰏌𰏍𰏎𰏏𰏐𰏑𰏒𰏓𰏔𰏕𰏖𰏗𰏘𰏙𰏚𰏛𰏜𰏝𰏞𰏟𰏠𰏡𰏢𰏣𰏤𰏥𰏦𰏧𰏨𰏩𰏪𰏫𰏬𰏭𰏮𰏯𰏰𰏱𰏲𰏳𰏴𰏵𰏶𰏷𰏸𰏹𰏺𰏻𰏼𰏽𰏾𰏿"
    \o "𰒀𰒁𰒂𰒃𰒄𰒅𰒆𰒇𰒈𰒉𰒊𰒋𰒌𰒍𰒎𰒏𰒐𰒑𰒒𰒓𰒔𰒕𰒖𰒗𰒘𰒙𰒚𰒛𰒜𰒝𰒞𰒟𰒠𰒡𰒢𰒣𰒤𰒥𰒦𰒧𰒨𰒩𰒪𰒫𰒬𰒭𰒮𰒯𰒰𰒱𰒲𰒳𰒴𰒵𰒶𰒷𰒸𰒹𰒺𰒻𰒼𰒽𰒾𰒿"
    \o "𰓀𰓁𰓂𰓃𰓄𰓅𰓆𰓇𰓈𰓉𰓊𰓋𰓌𰓍𰓎𰓏𰓐𰓑𰓒𰓓𰓔𰓕𰓖𰓗𰓘𰓙𰓚𰓛𰓜𰓝𰓞𰓟𰓠𰓡𰓢𰓣𰓤𰓥𰓦𰓧𰓨𰓩𰓪𰓫𰓬𰓭𰓮𰓯𰓰𰓱𰓲𰓳𰓴𰓵𰓶𰓷𰓸𰓹𰓺𰓻𰓼𰓽𰓾𰓿"
    \o "𰖀𰖁𰖂𰖃𰖄𰖅𰖆𰖇𰖈𰖉𰖊𰖋𰖌𰖍𰖎𰖏𰖐𰖑𰖒𰖓𰖔𰖕𰖖𰖗𰖘𰖙𰖚𰖛𰖜𰖝𰖞𰖟𰖠𰖡𰖢𰖣𰖤𰖥𰖦𰖧𰖨𰖩𰖪𰖫𰖬𰖭𰖮𰖯𰖰𰖱𰖲𰖳𰖴𰖵𰖶𰖷𰖸𰖹𰖺𰖻𰖼𰖽𰖾𰖿"
    \o "𰗀𰗁𰗂𰗃𰗄𰗅𰗆𰗇𰗈𰗉𰗊𰗋𰗌𰗍𰗎𰗏𰗐𰗑𰗒𰗓𰗔𰗕𰗖𰗗𰗘𰗙𰗚𰗛𰗜𰗝𰗞𰗟𰗠𰗡𰗢𰗣𰗤𰗥𰗦𰗧𰗨𰗩𰗪𰗫𰗬𰗭𰗮𰗯𰗰𰗱𰗲𰗳𰗴𰗵𰗶𰗷𰗸𰗹𰗺𰗻𰗼𰗽𰗾𰗿"
    \o "𰚀𰚁𰚂𰚃𰚄𰚅𰚆𰚇𰚈𰚉𰚊𰚋𰚌𰚍𰚎𰚏𰚐𰚑𰚒𰚓𰚔𰚕𰚖𰚗𰚘𰚙𰚚𰚛𰚜𰚝𰚞𰚟𰚠𰚡𰚢𰚣𰚤𰚥𰚦𰚧𰚨𰚩𰚪𰚫𰚬𰚭𰚮𰚯𰚰𰚱𰚲𰚳𰚴𰚵𰚶𰚷𰚸𰚹𰚺𰚻𰚼𰚽𰚾𰚿"
    \o "𰛀𰛁𰛂𰛃𰛄𰛅𰛆𰛇𰛈𰛉𰛊𰛋𰛌𰛍𰛎𰛏𰛐𰛑𰛒𰛓𰛔𰛕𰛖𰛗𰛘𰛙𰛚𰛛𰛜𰛝𰛞𰛟𰛠𰛡𰛢𰛣𰛤𰛥𰛦𰛧𰛨𰛩𰛪𰛫𰛬𰛭𰛮𰛯𰛰𰛱𰛲𰛳𰛴𰛵𰛶𰛷𰛸𰛹𰛺𰛻𰛼𰛽𰛾𰛿"
    \o "𰞀𰞁𰞂𰞃𰞄𰞅𰞆𰞇𰞈𰞉𰞊𰞋𰞌𰞍𰞎𰞏𰞐𰞑𰞒𰞓𰞔𰞕𰞖𰞗𰞘𰞙𰞚𰞛𰞜𰞝𰞞𰞟𰞠𰞡𰞢𰞣𰞤𰞥𰞦𰞧𰞨𰞩𰞪𰞫𰞬𰞭𰞮𰞯𰞰𰞱𰞲𰞳𰞴𰞵𰞶𰞷𰞸𰞹𰞺𰞻𰞼𰞽𰞾𰞿"
    \o "𰟀𰟁𰟂𰟃𰟄𰟅𰟆𰟇𰟈𰟉𰟊𰟋𰟌𰟍𰟎𰟏𰟐𰟑𰟒𰟓𰟔𰟕𰟖𰟗𰟘𰟙𰟚𰟛𰟜𰟝𰟞𰟟𰟠𰟡𰟢𰟣𰟤𰟥𰟦𰟧𰟨𰟩𰟪𰟫𰟬𰟭𰟮𰟯𰟰𰟱𰟲𰟳𰟴𰟵𰟶𰟷𰟸𰟹𰟺𰟻𰟼𰟽𰟾𰟿"
    \o "𰢀𰢁𰢂𰢃𰢄𰢅𰢆𰢇𰢈𰢉𰢊𰢋𰢌𰢍𰢎𰢏𰢐𰢑𰢒𰢓𰢔𰢕𰢖𰢗𰢘𰢙𰢚𰢛𰢜𰢝𰢞𰢟𰢠𰢡𰢢𰢣𰢤𰢥𰢦𰢧𰢨𰢩𰢪𰢫𰢬𰢭𰢮𰢯𰢰𰢱𰢲𰢳𰢴𰢵𰢶𰢷𰢸𰢹𰢺𰢻𰢼𰢽𰢾𰢿"
    \o "𰣀𰣁𰣂𰣃𰣄𰣅𰣆𰣇𰣈𰣉𰣊𰣋𰣌𰣍𰣎𰣏𰣐𰣑𰣒𰣓𰣔𰣕𰣖𰣗𰣘𰣙𰣚𰣛𰣜𰣝𰣞𰣟𰣠𰣡𰣢𰣣𰣤𰣥𰣦𰣧𰣨𰣩𰣪𰣫𰣬𰣭𰣮𰣯𰣰𰣱𰣲𰣳𰣴𰣵𰣶𰣷𰣸𰣹𰣺𰣻𰣼𰣽𰣾𰣿"
    \o "𰦀𰦁𰦂𰦃𰦄𰦅𰦆𰦇𰦈𰦉𰦊𰦋𰦌𰦍𰦎𰦏𰦐𰦑𰦒𰦓𰦔𰦕𰦖𰦗𰦘𰦙𰦚𰦛𰦜𰦝𰦞𰦟𰦠𰦡𰦢𰦣𰦤𰦥𰦦𰦧𰦨𰦩𰦪𰦫𰦬𰦭𰦮𰦯𰦰𰦱𰦲𰦳𰦴𰦵𰦶𰦷𰦸𰦹𰦺𰦻𰦼𰦽𰦾𰦿"
    \o "𰧀𰧁𰧂𰧃𰧄𰧅𰧆𰧇𰧈𰧉𰧊𰧋𰧌𰧍𰧎𰧏𰧐𰧑𰧒𰧓𰧔𰧕𰧖𰧗𰧘𰧙𰧚𰧛𰧜𰧝𰧞𰧟𰧠𰧡𰧢𰧣𰧤𰧥𰧦𰧧𰧨𰧩𰧪𰧫𰧬𰧭𰧮𰧯𰧰𰧱𰧲𰧳𰧴𰧵𰧶𰧷𰧸𰧹𰧺𰧻𰧼𰧽𰧾𰧿"
    \o "𰪀𰪁𰪂𰪃𰪄𰪅𰪆𰪇𰪈𰪉𰪊𰪋𰪌𰪍𰪎𰪏𰪐𰪑𰪒𰪓𰪔𰪕𰪖𰪗𰪘𰪙𰪚𰪛𰪜𰪝𰪞𰪟𰪠𰪡𰪢𰪣𰪤𰪥𰪦𰪧𰪨𰪩𰪪𰪫𰪬𰪭𰪮𰪯𰪰𰪱𰪲𰪳𰪴𰪵𰪶𰪷𰪸𰪹𰪺𰪻𰪼𰪽𰪾𰪿"
    \o "𰫀𰫁𰫂𰫃𰫄𰫅𰫆𰫇𰫈𰫉𰫊𰫋𰫌𰫍𰫎𰫏𰫐𰫑𰫒𰫓𰫔𰫕𰫖𰫗𰫘𰫙𰫚𰫛𰫜𰫝𰫞𰫟𰫠𰫡𰫢𰫣𰫤𰫥𰫦𰫧𰫨𰫩𰫪𰫫𰫬𰫭𰫮𰫯𰫰𰫱𰫲𰫳𰫴𰫵𰫶𰫷𰫸𰫹𰫺𰫻𰫼𰫽𰫾𰫿"
    \o "𰮀𰮁𰮂𰮃𰮄𰮅𰮆𰮇𰮈𰮉𰮊𰮋𰮌𰮍𰮎𰮏𰮐𰮑𰮒𰮓𰮔𰮕𰮖𰮗𰮘𰮙𰮚𰮛𰮜𰮝𰮞𰮟𰮠𰮡𰮢𰮣𰮤𰮥𰮦𰮧𰮨𰮩𰮪𰮫𰮬𰮭𰮮𰮯𰮰𰮱𰮲𰮳𰮴𰮵𰮶𰮷𰮸𰮹𰮺𰮻𰮼𰮽𰮾𰮿"
    \o "𰯀𰯁𰯂𰯃𰯄𰯅𰯆𰯇𰯈𰯉𰯊𰯋𰯌𰯍𰯎𰯏𰯐𰯑𰯒𰯓𰯔𰯕𰯖𰯗𰯘𰯙𰯚𰯛𰯜𰯝𰯞𰯟𰯠𰯡𰯢𰯣𰯤𰯥𰯦𰯧𰯨𰯩𰯪𰯫𰯬𰯭𰯮𰯯𰯰𰯱𰯲𰯳𰯴𰯵𰯶𰯷𰯸𰯹𰯺𰯻𰯼𰯽𰯾𰯿"
    \o "𰲀𰲁𰲂𰲃𰲄𰲅𰲆𰲇𰲈𰲉𰲊𰲋𰲌𰲍𰲎𰲏𰲐𰲑𰲒𰲓𰲔𰲕𰲖𰲗𰲘𰲙𰲚𰲛𰲜𰲝𰲞𰲟𰲠𰲡𰲢𰲣𰲤𰲥𰲦𰲧𰲨𰲩𰲪𰲫𰲬𰲭𰲮𰲯𰲰𰲱𰲲𰲳𰲴𰲵𰲶𰲷𰲸𰲹𰲺𰲻𰲼𰲽𰲾𰲿"
    \o "𰳀𰳁𰳂𰳃𰳄𰳅𰳆𰳇𰳈𰳉𰳊𰳋𰳌𰳍𰳎𰳏𰳐𰳑𰳒𰳓𰳔𰳕𰳖𰳗𰳘𰳙𰳚𰳛𰳜𰳝𰳞𰳟𰳠𰳡𰳢𰳣𰳤𰳥𰳦𰳧𰳨𰳩𰳪𰳫𰳬𰳭𰳮𰳯𰳰𰳱𰳲𰳳𰳴𰳵𰳶𰳷𰳸𰳹𰳺𰳻𰳼𰳽𰳾𰳿"
    \o "𰶀𰶁𰶂𰶃𰶄𰶅𰶆𰶇𰶈𰶉𰶊𰶋𰶌𰶍𰶎𰶏𰶐𰶑𰶒𰶓𰶔𰶕𰶖𰶗𰶘𰶙𰶚𰶛𰶜𰶝𰶞𰶟𰶠𰶡𰶢𰶣𰶤𰶥𰶦𰶧𰶨𰶩𰶪𰶫𰶬𰶭𰶮𰶯𰶰𰶱𰶲𰶳𰶴𰶵𰶶𰶷𰶸𰶹𰶺𰶻𰶼𰶽𰶾𰶿"
    \o "𰷀𰷁𰷂𰷃𰷄𰷅𰷆𰷇𰷈𰷉𰷊𰷋𰷌𰷍𰷎𰷏𰷐𰷑𰷒𰷓𰷔𰷕𰷖𰷗𰷘𰷙𰷚𰷛𰷜𰷝𰷞𰷟𰷠𰷡𰷢𰷣𰷤𰷥𰷦𰷧𰷨𰷩𰷪𰷫𰷬𰷭𰷮𰷯𰷰𰷱𰷲𰷳𰷴𰷵𰷶𰷷𰷸𰷹𰷺𰷻𰷼𰷽𰷾𰷿"
    \o "𰺀𰺁𰺂𰺃𰺄𰺅𰺆𰺇𰺈𰺉𰺊𰺋𰺌𰺍𰺎𰺏𰺐𰺑𰺒𰺓𰺔𰺕𰺖𰺗𰺘𰺙𰺚𰺛𰺜𰺝𰺞𰺟𰺠𰺡𰺢𰺣𰺤𰺥𰺦𰺧𰺨𰺩𰺪𰺫𰺬𰺭𰺮𰺯𰺰𰺱𰺲𰺳𰺴𰺵𰺶𰺷𰺸𰺹𰺺𰺻𰺼𰺽𰺾𰺿"
    \o "𰻀𰻁𰻂𰻃𰻄𰻅𰻆𰻇𰻈𰻉𰻊𰻋𰻌𰻍𰻎𰻏𰻐𰻑𰻒𰻓𰻔𰻕𰻖𰻗𰻘𰻙𰻚𰻛𰻜𰻝𰻞𰻟𰻠𰻡𰻢𰻣𰻤𰻥𰻦𰻧𰻨𰻩𰻪𰻫𰻬𰻭𰻮𰻯𰻰𰻱𰻲𰻳𰻴𰻵𰻶𰻷𰻸𰻹𰻺𰻻𰻼𰻽𰻾𰻿"
    \o "𰾀𰾁𰾂𰾃𰾄𰾅𰾆𰾇𰾈𰾉𰾊𰾋𰾌𰾍𰾎𰾏𰾐𰾑𰾒𰾓𰾔𰾕𰾖𰾗𰾘𰾙𰾚𰾛𰾜𰾝𰾞𰾟𰾠𰾡𰾢𰾣𰾤𰾥𰾦𰾧𰾨𰾩𰾪𰾫𰾬𰾭𰾮𰾯𰾰𰾱𰾲𰾳𰾴𰾵𰾶𰾷𰾸𰾹𰾺𰾻𰾼𰾽𰾾𰾿"
    \o "𰿀𰿁𰿂𰿃𰿄𰿅𰿆𰿇𰿈𰿉𰿊𰿋𰿌𰿍𰿎𰿏𰿐𰿑𰿒𰿓𰿔𰿕𰿖𰿗𰿘𰿙𰿚𰿛𰿜𰿝𰿞𰿟𰿠𰿡𰿢𰿣𰿤𰿥𰿦𰿧𰿨𰿩𰿪𰿫𰿬𰿭𰿮𰿯𰿰𰿱𰿲𰿳𰿴𰿵𰿶𰿷𰿸𰿹𰿺𰿻𰿼𰿽𰿾𰿿"
    \o "𱂀𱂁𱂂𱂃𱂄𱂅𱂆𱂇𱂈𱂉𱂊𱂋𱂌𱂍𱂎𱂏𱂐𱂑𱂒𱂓𱂔𱂕𱂖𱂗𱂘𱂙𱂚𱂛𱂜𱂝𱂞𱂟𱂠𱂡𱂢𱂣𱂤𱂥𱂦𱂧𱂨𱂩𱂪𱂫𱂬𱂭𱂮𱂯𱂰𱂱𱂲𱂳𱂴𱂵𱂶𱂷𱂸𱂹𱂺𱂻𱂼𱂽𱂾𱂿"
    \o "𱃀𱃁𱃂𱃃𱃄𱃅𱃆𱃇𱃈𱃉𱃊𱃋𱃌𱃍𱃎𱃏𱃐𱃑𱃒𱃓𱃔𱃕𱃖𱃗𱃘𱃙𱃚𱃛𱃜𱃝𱃞𱃟𱃠𱃡𱃢𱃣𱃤𱃥𱃦𱃧𱃨𱃩𱃪𱃫𱃬𱃭𱃮𱃯𱃰𱃱𱃲𱃳𱃴𱃵𱃶𱃷𱃸𱃹𱃺𱃻𱃼𱃽𱃾𱃿"
    \o "𱆀𱆁𱆂𱆃𱆄𱆅𱆆𱆇𱆈𱆉𱆊𱆋𱆌𱆍𱆎𱆏𱆐𱆑𱆒𱆓𱆔𱆕𱆖𱆗𱆘𱆙𱆚𱆛𱆜𱆝𱆞𱆟𱆠𱆡𱆢𱆣𱆤𱆥𱆦𱆧𱆨𱆩𱆪𱆫𱆬𱆭𱆮𱆯𱆰𱆱𱆲𱆳𱆴𱆵𱆶𱆷𱆸𱆹𱆺𱆻𱆼𱆽𱆾𱆿"
    \o "𱇀𱇁𱇂𱇃𱇄𱇅𱇆𱇇𱇈𱇉𱇊𱇋𱇌𱇍𱇎𱇏𱇐𱇑𱇒𱇓𱇔𱇕𱇖𱇗𱇘𱇙𱇚𱇛𱇜𱇝𱇞𱇟𱇠𱇡𱇢𱇣𱇤𱇥𱇦𱇧𱇨𱇩𱇪𱇫𱇬𱇭𱇮𱇯𱇰𱇱𱇲𱇳𱇴𱇵𱇶𱇷𱇸𱇹𱇺𱇻𱇼𱇽𱇾𱇿"
    \o "𱊀𱊁𱊂𱊃𱊄𱊅𱊆𱊇𱊈𱊉𱊊𱊋𱊌𱊍𱊎𱊏𱊐𱊑𱊒𱊓𱊔𱊕𱊖𱊗𱊘𱊙𱊚𱊛𱊜𱊝𱊞𱊟𱊠𱊡𱊢𱊣𱊤𱊥𱊦𱊧𱊨𱊩𱊪𱊫𱊬𱊭𱊮𱊯𱊰𱊱𱊲𱊳𱊴𱊵𱊶𱊷𱊸𱊹𱊺𱊻𱊼𱊽𱊾𱊿"
    \o "𱋀𱋁𱋂𱋃𱋄𱋅𱋆𱋇𱋈𱋉𱋊𱋋𱋌𱋍𱋎𱋏𱋐𱋑𱋒𱋓𱋔𱋕𱋖𱋗𱋘𱋙𱋚𱋛𱋜𱋝𱋞𱋟𱋠𱋡𱋢𱋣𱋤𱋥𱋦𱋧𱋨𱋩𱋪𱋫𱋬𱋭𱋮𱋯𱋰𱋱𱋲𱋳𱋴𱋵𱋶𱋷𱋸𱋹𱋺𱋻𱋼𱋽𱋾𱋿"
    \o "𱎀𱎁𱎂𱎃𱎄𱎅𱎆𱎇𱎈𱎉𱎊𱎋𱎌𱎍𱎎𱎏𱎐𱎑𱎒𱎓𱎔𱎕𱎖𱎗𱎘𱎙𱎚𱎛𱎜𱎝𱎞𱎟𱎠𱎡𱎢𱎣𱎤𱎥𱎦𱎧𱎨𱎩𱎪𱎫𱎬𱎭𱎮𱎯𱎰𱎱𱎲𱎳𱎴𱎵𱎶𱎷𱎸𱎹𱎺𱎻𱎼𱎽𱎾𱎿"
    \o "𱏀𱏁𱏂𱏃𱏄𱏅𱏆𱏇𱏈𱏉𱏊𱏋𱏌𱏍𱏎𱏏𱏐𱏑𱏒𱏓𱏔𱏕𱏖𱏗𱏘𱏙𱏚𱏛𱏜𱏝𱏞𱏟𱏠𱏡𱏢𱏣𱏤𱏥𱏦𱏧𱏨𱏩𱏪𱏫𱏬𱏭𱏮𱏯𱏰𱏱𱏲𱏳𱏴𱏵𱏶𱏷𱏸𱏹𱏺𱏻𱏼𱏽𱏾𱏿"
    \o "𱒀𱒁𱒂𱒃𱒄𱒅𱒆𱒇𱒈𱒉𱒊𱒋𱒌𱒍𱒎𱒏𱒐𱒑𱒒𱒓𱒔𱒕𱒖𱒗𱒘𱒙𱒚𱒛𱒜𱒝𱒞𱒟𱒠𱒡𱒢𱒣𱒤𱒥𱒦𱒧𱒨𱒩𱒪𱒫𱒬𱒭𱒮𱒯𱒰𱒱𱒲𱒳𱒴𱒵𱒶𱒷𱒸𱒹𱒺𱒻𱒼𱒽𱒾𱒿"
    \o "𱓀𱓁𱓂𱓃𱓄𱓅𱓆𱓇𱓈𱓉𱓊𱓋𱓌𱓍𱓎𱓏𱓐𱓑𱓒𱓓𱓔𱓕𱓖𱓗𱓘𱓙𱓚𱓛𱓜𱓝𱓞𱓟𱓠𱓡𱓢𱓣𱓤𱓥𱓦𱓧𱓨𱓩𱓪𱓫𱓬𱓭𱓮𱓯𱓰𱓱𱓲𱓳𱓴𱓵𱓶𱓷𱓸𱓹𱓺𱓻𱓼𱓽𱓾𱓿"
    \o "𱖀𱖁𱖂𱖃𱖄𱖅𱖆𱖇𱖈𱖉𱖊𱖋𱖌𱖍𱖎𱖏𱖐𱖑𱖒𱖓𱖔𱖕𱖖𱖗𱖘𱖙𱖚𱖛𱖜𱖝𱖞𱖟𱖠𱖡𱖢𱖣𱖤𱖥𱖦𱖧𱖨𱖩𱖪𱖫𱖬𱖭𱖮𱖯𱖰𱖱𱖲𱖳𱖴𱖵𱖶𱖷𱖸𱖹𱖺𱖻𱖼𱖽𱖾𱖿"
    \o "𱗀𱗁𱗂𱗃𱗄𱗅𱗆𱗇𱗈𱗉𱗊𱗋𱗌𱗍𱗎𱗏𱗐𱗑𱗒𱗓𱗔𱗕𱗖𱗗𱗘𱗙𱗚𱗛𱗜𱗝𱗞𱗟𱗠𱗡𱗢𱗣𱗤𱗥𱗦𱗧𱗨𱗩𱗪𱗫𱗬𱗭𱗮𱗯𱗰𱗱𱗲𱗳𱗴𱗵𱗶𱗷𱗸𱗹𱗺𱗻𱗼𱗽𱗾𱗿"
    \o "𱚀𱚁𱚂𱚃𱚄𱚅𱚆𱚇𱚈𱚉𱚊𱚋𱚌𱚍𱚎𱚏𱚐𱚑𱚒𱚓𱚔𱚕𱚖𱚗𱚘𱚙𱚚𱚛𱚜𱚝𱚞𱚟𱚠𱚡𱚢𱚣𱚤𱚥𱚦𱚧𱚨𱚩𱚪𱚫𱚬𱚭𱚮𱚯𱚰𱚱𱚲𱚳𱚴𱚵𱚶𱚷𱚸𱚹𱚺𱚻𱚼𱚽𱚾𱚿"
    \o "𱛀𱛁𱛂𱛃𱛄𱛅𱛆𱛇𱛈𱛉𱛊𱛋𱛌𱛍𱛎𱛏𱛐𱛑𱛒𱛓𱛔𱛕𱛖𱛗𱛘𱛙𱛚𱛛𱛜𱛝𱛞𱛟𱛠𱛡𱛢𱛣𱛤𱛥𱛦𱛧𱛨𱛩𱛪𱛫𱛬𱛭𱛮𱛯𱛰𱛱𱛲𱛳𱛴𱛵𱛶𱛷𱛸𱛹𱛺𱛻𱛼𱛽𱛾𱛿"
    \o "𱞀𱞁𱞂𱞃𱞄𱞅𱞆𱞇𱞈𱞉𱞊𱞋𱞌𱞍𱞎𱞏𱞐𱞑𱞒𱞓𱞔𱞕𱞖𱞗𱞘𱞙𱞚𱞛𱞜𱞝𱞞𱞟𱞠𱞡𱞢𱞣𱞤𱞥𱞦𱞧𱞨𱞩𱞪𱞫𱞬𱞭𱞮𱞯𱞰𱞱𱞲𱞳𱞴𱞵𱞶𱞷𱞸𱞹𱞺𱞻𱞼𱞽𱞾𱞿"
    \o "𱟀𱟁𱟂𱟃𱟄𱟅𱟆𱟇𱟈𱟉𱟊𱟋𱟌𱟍𱟎𱟏𱟐𱟑𱟒𱟓𱟔𱟕𱟖𱟗𱟘𱟙𱟚𱟛𱟜𱟝𱟞𱟟𱟠𱟡𱟢𱟣𱟤𱟥𱟦𱟧𱟨𱟩𱟪𱟫𱟬𱟭𱟮𱟯𱟰𱟱𱟲𱟳𱟴𱟵𱟶𱟷𱟸𱟹𱟺𱟻𱟼𱟽𱟾𱟿"
    \o "𱢀𱢁𱢂𱢃𱢄𱢅𱢆𱢇𱢈𱢉𱢊𱢋𱢌𱢍𱢎𱢏𱢐𱢑𱢒𱢓𱢔𱢕𱢖𱢗𱢘𱢙𱢚𱢛𱢜𱢝𱢞𱢟𱢠𱢡𱢢𱢣𱢤𱢥𱢦𱢧𱢨𱢩𱢪𱢫𱢬𱢭𱢮𱢯𱢰𱢱𱢲𱢳𱢴𱢵𱢶𱢷𱢸𱢹𱢺𱢻𱢼𱢽𱢾𱢿"
    \o "𱣀𱣁𱣂𱣃𱣄𱣅𱣆𱣇𱣈𱣉𱣊𱣋𱣌𱣍𱣎𱣏𱣐𱣑𱣒𱣓𱣔𱣕𱣖𱣗𱣘𱣙𱣚𱣛𱣜𱣝𱣞𱣟𱣠𱣡𱣢𱣣𱣤𱣥𱣦𱣧𱣨𱣩𱣪𱣫𱣬𱣭𱣮𱣯𱣰𱣱𱣲𱣳𱣴𱣵𱣶𱣷𱣸𱣹𱣺𱣻𱣼𱣽𱣾𱣿"
    \o "𱦀𱦁𱦂𱦃𱦄𱦅𱦆𱦇𱦈𱦉𱦊𱦋𱦌𱦍𱦎𱦏𱦐𱦑𱦒𱦓𱦔𱦕𱦖𱦗𱦘𱦙𱦚𱦛𱦜𱦝𱦞𱦟𱦠𱦡𱦢𱦣𱦤𱦥𱦦𱦧𱦨𱦩𱦪𱦫𱦬𱦭𱦮𱦯𱦰𱦱𱦲𱦳𱦴𱦵𱦶𱦷𱦸𱦹𱦺𱦻𱦼𱦽𱦾𱦿"
    \o "𱧀𱧁𱧂𱧃𱧄𱧅𱧆𱧇𱧈𱧉𱧊𱧋𱧌𱧍𱧎𱧏𱧐𱧑𱧒𱧓𱧔𱧕𱧖𱧗𱧘𱧙𱧚𱧛𱧜𱧝𱧞𱧟𱧠𱧡𱧢𱧣𱧤𱧥𱧦𱧧𱧨𱧩𱧪𱧫𱧬𱧭𱧮𱧯𱧰𱧱𱧲𱧳𱧴𱧵𱧶𱧷𱧸𱧹𱧺𱧻𱧼𱧽𱧾𱧿"
    \o "𱪀𱪁𱪂𱪃𱪄𱪅𱪆𱪇𱪈𱪉𱪊𱪋𱪌𱪍𱪎𱪏𱪐𱪑𱪒𱪓𱪔𱪕𱪖𱪗𱪘𱪙𱪚𱪛𱪜𱪝𱪞𱪟𱪠𱪡𱪢𱪣𱪤𱪥𱪦𱪧𱪨𱪩𱪪𱪫𱪬𱪭𱪮𱪯𱪰𱪱𱪲𱪳𱪴𱪵𱪶𱪷𱪸𱪹𱪺𱪻𱪼𱪽𱪾𱪿"
    \o "𱫀𱫁𱫂𱫃𱫄𱫅𱫆𱫇𱫈𱫉𱫊𱫋𱫌𱫍𱫎𱫏𱫐𱫑𱫒𱫓𱫔𱫕𱫖𱫗𱫘𱫙𱫚𱫛𱫜𱫝𱫞𱫟𱫠𱫡𱫢𱫣𱫤𱫥𱫦𱫧𱫨𱫩𱫪𱫫𱫬𱫭𱫮𱫯𱫰𱫱𱫲𱫳𱫴𱫵𱫶𱫷𱫸𱫹𱫺𱫻𱫼𱫽𱫾𱫿"
    \o "𱮀𱮁𱮂𱮃𱮄𱮅𱮆𱮇𱮈𱮉𱮊𱮋𱮌𱮍𱮎𱮏𱮐𱮑𱮒𱮓𱮔𱮕𱮖𱮗𱮘𱮙𱮚𱮛𱮜𱮝𱮞𱮟𱮠𱮡𱮢𱮣𱮤𱮥𱮦𱮧𱮨𱮩𱮪𱮫𱮬𱮭𱮮𱮯𱮰𱮱𱮲𱮳𱮴𱮵𱮶𱮷𱮸𱮹𱮺𱮻𱮼𱮽𱮾𱮿"
    \o "𱯀𱯁𱯂𱯃𱯄𱯅𱯆𱯇𱯈𱯉𱯊𱯋𱯌𱯍𱯎𱯏𱯐𱯑𱯒𱯓𱯔𱯕𱯖𱯗𱯘𱯙𱯚𱯛𱯜𱯝𱯞𱯟𱯠𱯡𱯢𱯣𱯤𱯥𱯦𱯧𱯨𱯩𱯪𱯫𱯬𱯭𱯮𱯯𱯰𱯱𱯲𱯳𱯴𱯵𱯶𱯷𱯸𱯹𱯺𱯻𱯼𱯽𱯾𱯿"
    \o "𱲀𱲁𱲂𱲃𱲄𱲅𱲆𱲇𱲈𱲉𱲊𱲋𱲌𱲍𱲎𱲏𱲐𱲑𱲒𱲓𱲔𱲕𱲖𱲗𱲘𱲙𱲚𱲛𱲜𱲝𱲞𱲟𱲠𱲡𱲢𱲣𱲤𱲥𱲦𱲧𱲨𱲩𱲪𱲫𱲬𱲭𱲮𱲯𱲰𱲱𱲲𱲳𱲴𱲵𱲶𱲷𱲸𱲹𱲺𱲻𱲼𱲽𱲾𱲿"
    \o "𱳀𱳁𱳂𱳃𱳄𱳅𱳆𱳇𱳈𱳉𱳊𱳋𱳌𱳍𱳎𱳏𱳐𱳑𱳒𱳓𱳔𱳕𱳖𱳗𱳘𱳙𱳚𱳛𱳜𱳝𱳞𱳟𱳠𱳡𱳢𱳣𱳤𱳥𱳦𱳧𱳨𱳩𱳪𱳫𱳬𱳭𱳮𱳯𱳰𱳱𱳲𱳳𱳴𱳵𱳶𱳷𱳸𱳹𱳺𱳻𱳼𱳽𱳾𱳿"
    \o "𱶀𱶁𱶂𱶃𱶄𱶅𱶆𱶇𱶈𱶉𱶊𱶋𱶌𱶍𱶎𱶏𱶐𱶑𱶒𱶓𱶔𱶕𱶖𱶗𱶘𱶙𱶚𱶛𱶜𱶝𱶞𱶟𱶠𱶡𱶢𱶣𱶤𱶥𱶦𱶧𱶨𱶩𱶪𱶫𱶬𱶭𱶮𱶯𱶰𱶱𱶲𱶳𱶴𱶵𱶶𱶷𱶸𱶹𱶺𱶻𱶼𱶽𱶾𱶿"
    \o "𱷀𱷁𱷂𱷃𱷄𱷅𱷆𱷇𱷈𱷉𱷊𱷋𱷌𱷍𱷎𱷏𱷐𱷑𱷒𱷓𱷔𱷕𱷖𱷗𱷘𱷙𱷚𱷛𱷜𱷝𱷞𱷟𱷠𱷡𱷢𱷣𱷤𱷥𱷦𱷧𱷨𱷩𱷪𱷫𱷬𱷭𱷮𱷯𱷰𱷱𱷲𱷳𱷴𱷵𱷶𱷷𱷸𱷹𱷺𱷻𱷼𱷽𱷾𱷿"
    \o "𱺀𱺁𱺂𱺃𱺄𱺅𱺆𱺇𱺈𱺉𱺊𱺋𱺌𱺍𱺎𱺏𱺐𱺑𱺒𱺓𱺔𱺕𱺖𱺗𱺘𱺙𱺚𱺛𱺜𱺝𱺞𱺟𱺠𱺡𱺢𱺣𱺤𱺥𱺦𱺧𱺨𱺩𱺪𱺫𱺬𱺭𱺮𱺯𱺰𱺱𱺲𱺳𱺴𱺵𱺶𱺷𱺸𱺹𱺺𱺻𱺼𱺽𱺾𱺿"
    \o "𱻀𱻁𱻂𱻃𱻄𱻅𱻆𱻇𱻈𱻉𱻊𱻋𱻌𱻍𱻎𱻏𱻐𱻑𱻒𱻓𱻔𱻕𱻖𱻗𱻘𱻙𱻚𱻛𱻜𱻝𱻞𱻟𱻠𱻡𱻢𱻣𱻤𱻥𱻦𱻧𱻨𱻩𱻪𱻫𱻬𱻭𱻮𱻯𱻰𱻱𱻲𱻳𱻴𱻵𱻶𱻷𱻸𱻹𱻺𱻻𱻼𱻽𱻾𱻿"
    \o "𱾀𱾁𱾂𱾃𱾄𱾅𱾆𱾇𱾈𱾉𱾊𱾋𱾌𱾍𱾎𱾏𱾐𱾑𱾒𱾓𱾔𱾕𱾖𱾗𱾘𱾙𱾚𱾛𱾜𱾝𱾞𱾟𱾠𱾡𱾢𱾣𱾤𱾥𱾦𱾧𱾨𱾩𱾪𱾫𱾬𱾭𱾮𱾯𱾰𱾱𱾲𱾳𱾴𱾵𱾶𱾷𱾸𱾹𱾺𱾻𱾼𱾽𱾾𱾿"
    \o "𱿀𱿁𱿂𱿃𱿄𱿅𱿆𱿇𱿈𱿉𱿊𱿋𱿌𱿍𱿎𱿏𱿐𱿑𱿒𱿓𱿔𱿕𱿖𱿗𱿘𱿙𱿚𱿛𱿜𱿝𱿞𱿟𱿠𱿡𱿢𱿣𱿤𱿥𱿦𱿧𱿨𱿩𱿪𱿫𱿬𱿭𱿮𱿯𱿰𱿱𱿲𱿳𱿴𱿵𱿶𱿷𱿸𱿹𱿺𱿻𱿼𱿽𱿾𱿿"
    \o "𲂀𲂁𲂂𲂃𲂄𲂅𲂆𲂇𲂈𲂉𲂊𲂋𲂌𲂍𲂎𲂏𲂐𲂑𲂒𲂓𲂔𲂕𲂖𲂗𲂘𲂙𲂚𲂛𲂜𲂝𲂞𲂟𲂠𲂡𲂢𲂣𲂤𲂥𲂦𲂧𲂨𲂩𲂪𲂫𲂬𲂭𲂮𲂯𲂰𲂱𲂲𲂳𲂴𲂵𲂶𲂷𲂸𲂹𲂺𲂻𲂼𲂽𲂾𲂿"
    \o "𲃀𲃁𲃂𲃃𲃄𲃅𲃆𲃇𲃈𲃉𲃊𲃋𲃌𲃍𲃎𲃏𲃐𲃑𲃒𲃓𲃔𲃕𲃖𲃗𲃘𲃙𲃚𲃛𲃜𲃝𲃞𲃟𲃠𲃡𲃢𲃣𲃤𲃥𲃦𲃧𲃨𲃩𲃪𲃫𲃬𲃭𲃮𲃯𲃰𲃱𲃲𲃳𲃴𲃵𲃶𲃷𲃸𲃹𲃺𲃻𲃼𲃽𲃾𲃿"
    \o "𲆀𲆁𲆂𲆃𲆄𲆅𲆆𲆇𲆈𲆉𲆊𲆋𲆌𲆍𲆎𲆏𲆐𲆑𲆒𲆓𲆔𲆕𲆖𲆗𲆘𲆙𲆚𲆛𲆜𲆝𲆞𲆟𲆠𲆡𲆢𲆣𲆤𲆥𲆦𲆧𲆨𲆩𲆪𲆫𲆬𲆭𲆮𲆯𲆰𲆱𲆲𲆳𲆴𲆵𲆶𲆷𲆸𲆹𲆺𲆻𲆼𲆽𲆾𲆿"
    \o "𲇀𲇁𲇂𲇃𲇄𲇅𲇆𲇇𲇈𲇉𲇊𲇋𲇌𲇍𲇎𲇏𲇐𲇑𲇒𲇓𲇔𲇕𲇖𲇗𲇘𲇙𲇚𲇛𲇜𲇝𲇞𲇟𲇠𲇡𲇢𲇣𲇤𲇥𲇦𲇧𲇨𲇩𲇪𲇫𲇬𲇭𲇮𲇯𲇰𲇱𲇲𲇳𲇴𲇵𲇶𲇷𲇸𲇹𲇺𲇻𲇼𲇽𲇾𲇿"
    \o "𲊀𲊁𲊂𲊃𲊄𲊅𲊆𲊇𲊈𲊉𲊊𲊋𲊌𲊍𲊎𲊏𲊐𲊑𲊒𲊓𲊔𲊕𲊖𲊗𲊘𲊙𲊚𲊛𲊜𲊝𲊞𲊟𲊠𲊡𲊢𲊣𲊤𲊥𲊦𲊧𲊨𲊩𲊪𲊫𲊬𲊭𲊮𲊯𲊰𲊱𲊲𲊳𲊴𲊵𲊶𲊷𲊸𲊹𲊺𲊻𲊼𲊽𲊾𲊿"
    \o "𲋀𲋁𲋂𲋃𲋄𲋅𲋆𲋇𲋈𲋉𲋊𲋋𲋌𲋍𲋎𲋏𲋐𲋑𲋒𲋓𲋔𲋕𲋖𲋗𲋘𲋙𲋚𲋛𲋜𲋝𲋞𲋟𲋠𲋡𲋢𲋣𲋤𲋥𲋦𲋧𲋨𲋩𲋪𲋫𲋬𲋭𲋮𲋯𲋰𲋱𲋲𲋳𲋴𲋵𲋶𲋷𲋸𲋹𲋺𲋻𲋼𲋽𲋾𲋿"
    \o "𲎀𲎁𲎂𲎃𲎄𲎅𲎆𲎇𲎈𲎉𲎊𲎋𲎌𲎍𲎎𲎏𲎐𲎑𲎒𲎓𲎔𲎕𲎖𲎗𲎘𲎙𲎚𲎛𲎜𲎝𲎞𲎟𲎠𲎡𲎢𲎣𲎤𲎥𲎦𲎧𲎨𲎩𲎪𲎫𲎬𲎭𲎮𲎯𲎰𲎱𲎲𲎳𲎴𲎵𲎶𲎷𲎸𲎹𲎺𲎻𲎼𲎽𲎾𲎿"
    \o "𲏀𲏁𲏂𲏃𲏄𲏅𲏆𲏇𲏈𲏉𲏊𲏋𲏌𲏍𲏎𲏏𲏐𲏑𲏒𲏓𲏔𲏕𲏖𲏗𲏘𲏙𲏚𲏛𲏜𲏝𲏞𲏟𲏠𲏡𲏢𲏣𲏤𲏥𲏦𲏧𲏨𲏩𲏪𲏫𲏬𲏭𲏮𲏯𲏰𲏱𲏲𲏳𲏴𲏵𲏶𲏷𲏸𲏹𲏺𲏻𲏼𲏽𲏾𲏿"
    \o "𲒀𲒁𲒂𲒃𲒄𲒅𲒆𲒇𲒈𲒉𲒊𲒋𲒌𲒍𲒎𲒏𲒐𲒑𲒒𲒓𲒔𲒕𲒖𲒗𲒘𲒙𲒚𲒛𲒜𲒝𲒞𲒟𲒠𲒡𲒢𲒣𲒤𲒥𲒦𲒧𲒨𲒩𲒪𲒫𲒬𲒭𲒮𲒯𲒰𲒱𲒲𲒳𲒴𲒵𲒶𲒷𲒸𲒹𲒺𲒻𲒼𲒽𲒾𲒿"
    \o "𲓀𲓁𲓂𲓃𲓄𲓅𲓆𲓇𲓈𲓉𲓊𲓋𲓌𲓍𲓎𲓏𲓐𲓑𲓒𲓓𲓔𲓕𲓖𲓗𲓘𲓙𲓚𲓛𲓜𲓝𲓞𲓟𲓠𲓡𲓢𲓣𲓤𲓥𲓦𲓧𲓨𲓩𲓪𲓫𲓬𲓭𲓮𲓯𲓰𲓱𲓲𲓳𲓴𲓵𲓶𲓷𲓸𲓹𲓺𲓻𲓼𲓽𲓾𲓿"
    \o "𲖀𲖁𲖂𲖃𲖄𲖅𲖆𲖇𲖈𲖉𲖊𲖋𲖌𲖍𲖎𲖏𲖐𲖑𲖒𲖓𲖔𲖕𲖖𲖗𲖘𲖙𲖚𲖛𲖜𲖝𲖞𲖟𲖠𲖡𲖢𲖣𲖤𲖥𲖦𲖧𲖨𲖩𲖪𲖫𲖬𲖭𲖮𲖯𲖰𲖱𲖲𲖳𲖴𲖵𲖶𲖷𲖸𲖹𲖺𲖻𲖼𲖽𲖾𲖿"
    \o "𲗀𲗁𲗂𲗃𲗄𲗅𲗆𲗇𲗈𲗉𲗊𲗋𲗌𲗍𲗎𲗏𲗐𲗑𲗒𲗓𲗔𲗕𲗖𲗗𲗘𲗙𲗚𲗛𲗜𲗝𲗞𲗟𲗠𲗡𲗢𲗣𲗤𲗥𲗦𲗧𲗨𲗩𲗪𲗫𲗬𲗭𲗮𲗯𲗰𲗱𲗲𲗳𲗴𲗵𲗶𲗷𲗸𲗹𲗺𲗻𲗼𲗽𲗾𲗿"
    \o "𲚀𲚁𲚂𲚃𲚄𲚅𲚆𲚇𲚈𲚉𲚊𲚋𲚌𲚍𲚎𲚏𲚐𲚑𲚒𲚓𲚔𲚕𲚖𲚗𲚘𲚙𲚚𲚛𲚜𲚝𲚞𲚟𲚠𲚡𲚢𲚣𲚤𲚥𲚦𲚧𲚨𲚩𲚪𲚫𲚬𲚭𲚮𲚯𲚰𲚱𲚲𲚳𲚴𲚵𲚶𲚷𲚸𲚹𲚺𲚻𲚼𲚽𲚾𲚿"
    \o "𲛀𲛁𲛂𲛃𲛄𲛅𲛆𲛇𲛈𲛉𲛊𲛋𲛌𲛍𲛎𲛏𲛐𲛑𲛒𲛓𲛔𲛕𲛖𲛗𲛘𲛙𲛚𲛛𲛜𲛝𲛞𲛟𲛠𲛡𲛢𲛣𲛤𲛥𲛦𲛧𲛨𲛩𲛪𲛫𲛬𲛭𲛮𲛯𲛰𲛱𲛲𲛳𲛴𲛵𲛶𲛷𲛸𲛹𲛺𲛻𲛼𲛽𲛾𲛿"
    \o "𲞀𲞁𲞂𲞃𲞄𲞅𲞆𲞇𲞈𲞉𲞊𲞋𲞌𲞍𲞎𲞏𲞐𲞑𲞒𲞓𲞔𲞕𲞖𲞗𲞘𲞙𲞚𲞛𲞜𲞝𲞞𲞟𲞠𲞡𲞢𲞣𲞤𲞥𲞦𲞧𲞨𲞩𲞪𲞫𲞬𲞭𲞮𲞯𲞰𲞱𲞲𲞳𲞴𲞵𲞶𲞷𲞸𲞹𲞺𲞻𲞼𲞽𲞾𲞿"
    \o "𲟀𲟁𲟂𲟃𲟄𲟅𲟆𲟇𲟈𲟉𲟊𲟋𲟌𲟍𲟎𲟏𲟐𲟑𲟒𲟓𲟔𲟕𲟖𲟗𲟘𲟙𲟚𲟛𲟜𲟝𲟞𲟟𲟠𲟡𲟢𲟣𲟤𲟥𲟦𲟧𲟨𲟩𲟪𲟫𲟬𲟭𲟮𲟯𲟰𲟱𲟲𲟳𲟴𲟵𲟶𲟷𲟸𲟹𲟺𲟻𲟼𲟽𲟾𲟿"
    \o "𲢀𲢁𲢂𲢃𲢄𲢅𲢆𲢇𲢈𲢉𲢊𲢋𲢌𲢍𲢎𲢏𲢐𲢑𲢒𲢓𲢔𲢕𲢖𲢗𲢘𲢙𲢚𲢛𲢜𲢝𲢞𲢟𲢠𲢡𲢢𲢣𲢤𲢥𲢦𲢧𲢨𲢩𲢪𲢫𲢬𲢭𲢮𲢯𲢰𲢱𲢲𲢳𲢴𲢵𲢶𲢷𲢸𲢹𲢺𲢻𲢼𲢽𲢾𲢿"
    \o "𲣀𲣁𲣂𲣃𲣄𲣅𲣆𲣇𲣈𲣉𲣊𲣋𲣌𲣍𲣎𲣏𲣐𲣑𲣒𲣓𲣔𲣕𲣖𲣗𲣘𲣙𲣚𲣛𲣜𲣝𲣞𲣟𲣠𲣡𲣢𲣣𲣤𲣥𲣦𲣧𲣨𲣩𲣪𲣫𲣬𲣭𲣮𲣯𲣰𲣱𲣲𲣳𲣴𲣵𲣶𲣷𲣸𲣹𲣺𲣻𲣼𲣽𲣾𲣿"
    \o "𲦀𲦁𲦂𲦃𲦄𲦅𲦆𲦇𲦈𲦉𲦊𲦋𲦌𲦍𲦎𲦏𲦐𲦑𲦒𲦓𲦔𲦕𲦖𲦗𲦘𲦙𲦚𲦛𲦜𲦝𲦞𲦟𲦠𲦡𲦢𲦣𲦤𲦥𲦦𲦧𲦨𲦩𲦪𲦫𲦬𲦭𲦮𲦯𲦰𲦱𲦲𲦳𲦴𲦵𲦶𲦷𲦸𲦹𲦺𲦻𲦼𲦽𲦾𲦿"
    \o "𲧀𲧁𲧂𲧃𲧄𲧅𲧆𲧇𲧈𲧉𲧊𲧋𲧌𲧍𲧎𲧏𲧐𲧑𲧒𲧓𲧔𲧕𲧖𲧗𲧘𲧙𲧚𲧛𲧜𲧝𲧞𲧟𲧠𲧡𲧢𲧣𲧤𲧥𲧦𲧧𲧨𲧩𲧪𲧫𲧬𲧭𲧮𲧯𲧰𲧱𲧲𲧳𲧴𲧵𲧶𲧷𲧸𲧹𲧺𲧻𲧼𲧽𲧾𲧿"
    \o "𲪀𲪁𲪂𲪃𲪄𲪅𲪆𲪇𲪈𲪉𲪊𲪋𲪌𲪍𲪎𲪏𲪐𲪑𲪒𲪓𲪔𲪕𲪖𲪗𲪘𲪙𲪚𲪛𲪜𲪝𲪞𲪟𲪠𲪡𲪢𲪣𲪤𲪥𲪦𲪧𲪨𲪩𲪪𲪫𲪬𲪭𲪮𲪯𲪰𲪱𲪲𲪳𲪴𲪵𲪶𲪷𲪸𲪹𲪺𲪻𲪼𲪽𲪾𲪿"
    \o "𲫀𲫁𲫂𲫃𲫄𲫅𲫆𲫇𲫈𲫉𲫊𲫋𲫌𲫍𲫎𲫏𲫐𲫑𲫒𲫓𲫔𲫕𲫖𲫗𲫘𲫙𲫚𲫛𲫜𲫝𲫞𲫟𲫠𲫡𲫢𲫣𲫤𲫥𲫦𲫧𲫨𲫩𲫪𲫫𲫬𲫭𲫮𲫯𲫰𲫱𲫲𲫳𲫴𲫵𲫶𲫷𲫸𲫹𲫺𲫻𲫼𲫽𲫾𲫿"
    \o "𲮀𲮁𲮂𲮃𲮄𲮅𲮆𲮇𲮈𲮉𲮊𲮋𲮌𲮍𲮎𲮏𲮐𲮑𲮒𲮓𲮔𲮕𲮖𲮗𲮘𲮙𲮚𲮛𲮜𲮝𲮞𲮟𲮠𲮡𲮢𲮣𲮤𲮥𲮦𲮧𲮨𲮩𲮪𲮫𲮬𲮭𲮮𲮯𲮰𲮱𲮲𲮳𲮴𲮵𲮶𲮷𲮸𲮹𲮺𲮻𲮼𲮽𲮾𲮿"
    \o "𲯀𲯁𲯂𲯃𲯄𲯅𲯆𲯇𲯈𲯉𲯊𲯋𲯌𲯍𲯎𲯏𲯐𲯑𲯒𲯓𲯔𲯕𲯖𲯗𲯘𲯙𲯚𲯛𲯜𲯝𲯞𲯟𲯠𲯡𲯢𲯣𲯤𲯥𲯦𲯧𲯨𲯩𲯪𲯫𲯬𲯭𲯮𲯯𲯰𲯱𲯲𲯳𲯴𲯵𲯶𲯷𲯸𲯹𲯺𲯻𲯼𲯽𲯾𲯿"
    \o "𲲀𲲁𲲂𲲃𲲄𲲅𲲆𲲇𲲈𲲉𲲊𲲋𲲌𲲍𲲎𲲏𲲐𲲑𲲒𲲓𲲔𲲕𲲖𲲗𲲘𲲙𲲚𲲛𲲜𲲝𲲞𲲟𲲠𲲡𲲢𲲣𲲤𲲥𲲦𲲧𲲨𲲩𲲪𲲫𲲬𲲭𲲮𲲯𲲰𲲱𲲲𲲳𲲴𲲵𲲶𲲷𲲸𲲹𲲺𲲻𲲼𲲽𲲾𲲿"
    \o "𲳀𲳁𲳂𲳃𲳄𲳅𲳆𲳇𲳈𲳉𲳊𲳋𲳌𲳍𲳎𲳏𲳐𲳑𲳒𲳓𲳔𲳕𲳖𲳗𲳘𲳙𲳚𲳛𲳜𲳝𲳞𲳟𲳠𲳡𲳢𲳣𲳤𲳥𲳦𲳧𲳨𲳩𲳪𲳫𲳬𲳭𲳮𲳯𲳰𲳱𲳲𲳳𲳴𲳵𲳶𲳷𲳸𲳹𲳺𲳻𲳼𲳽𲳾𲳿"
    \o "𲶀𲶁𲶂𲶃𲶄𲶅𲶆𲶇𲶈𲶉𲶊𲶋𲶌𲶍𲶎𲶏𲶐𲶑𲶒𲶓𲶔𲶕𲶖𲶗𲶘𲶙𲶚𲶛𲶜𲶝𲶞𲶟𲶠𲶡𲶢𲶣𲶤𲶥𲶦𲶧𲶨𲶩𲶪𲶫𲶬𲶭𲶮𲶯𲶰𲶱𲶲𲶳𲶴𲶵𲶶𲶷𲶸𲶹𲶺𲶻𲶼𲶽𲶾𲶿"
    \o "𲷀𲷁𲷂𲷃𲷄𲷅𲷆𲷇𲷈𲷉𲷊𲷋𲷌𲷍𲷎𲷏𲷐𲷑𲷒𲷓𲷔𲷕𲷖𲷗𲷘𲷙𲷚𲷛𲷜𲷝𲷞𲷟𲷠𲷡𲷢𲷣𲷤𲷥𲷦𲷧𲷨𲷩𲷪𲷫𲷬𲷭𲷮𲷯𲷰𲷱𲷲𲷳𲷴𲷵𲷶𲷷𲷸𲷹𲷺𲷻𲷼𲷽𲷾𲷿"
    \o "𲺀𲺁𲺂𲺃𲺄𲺅𲺆𲺇𲺈𲺉𲺊𲺋𲺌𲺍𲺎𲺏𲺐𲺑𲺒𲺓𲺔𲺕𲺖𲺗𲺘𲺙𲺚𲺛𲺜𲺝𲺞𲺟𲺠𲺡𲺢𲺣𲺤𲺥𲺦𲺧𲺨𲺩𲺪𲺫𲺬𲺭𲺮𲺯𲺰𲺱𲺲𲺳𲺴𲺵𲺶𲺷𲺸𲺹𲺺𲺻𲺼𲺽𲺾𲺿"
    \o "𲻀𲻁𲻂𲻃𲻄𲻅𲻆𲻇𲻈𲻉𲻊𲻋𲻌𲻍𲻎𲻏𲻐𲻑𲻒𲻓𲻔𲻕𲻖𲻗𲻘𲻙𲻚𲻛𲻜𲻝𲻞𲻟𲻠𲻡𲻢𲻣𲻤𲻥𲻦𲻧𲻨𲻩𲻪𲻫𲻬𲻭𲻮𲻯𲻰𲻱𲻲𲻳𲻴𲻵𲻶𲻷𲻸𲻹𲻺𲻻𲻼𲻽𲻾𲻿"
    \o "𲾀𲾁𲾂𲾃𲾄𲾅𲾆𲾇𲾈𲾉𲾊𲾋𲾌𲾍𲾎𲾏𲾐𲾑𲾒𲾓𲾔𲾕𲾖𲾗𲾘𲾙𲾚𲾛𲾜𲾝𲾞𲾟𲾠𲾡𲾢𲾣𲾤𲾥𲾦𲾧𲾨𲾩𲾪𲾫𲾬𲾭𲾮𲾯𲾰𲾱𲾲𲾳𲾴𲾵𲾶𲾷𲾸𲾹𲾺𲾻𲾼𲾽𲾾𲾿"
    \o "𲿀𲿁𲿂𲿃𲿄𲿅𲿆𲿇𲿈𲿉𲿊𲿋𲿌𲿍𲿎𲿏𲿐𲿑𲿒𲿓𲿔𲿕𲿖𲿗𲿘𲿙𲿚𲿛𲿜𲿝𲿞𲿟𲿠𲿡𲿢𲿣𲿤𲿥𲿦𲿧𲿨𲿩𲿪𲿫𲿬𲿭𲿮𲿯𲿰𲿱𲿲𲿳𲿴𲿵𲿶𲿷𲿸𲿹𲿺𲿻𲿼𲿽𲿾𲿿"
    \o "𳂀𳂁𳂂𳂃𳂄𳂅𳂆𳂇𳂈𳂉𳂊𳂋𳂌𳂍𳂎𳂏𳂐𳂑𳂒𳂓𳂔𳂕𳂖𳂗𳂘𳂙𳂚𳂛𳂜𳂝𳂞𳂟𳂠𳂡𳂢𳂣𳂤𳂥𳂦𳂧𳂨𳂩𳂪𳂫𳂬𳂭𳂮𳂯𳂰𳂱𳂲𳂳𳂴𳂵𳂶𳂷𳂸𳂹𳂺𳂻𳂼𳂽𳂾𳂿"
    \o "𳃀𳃁𳃂𳃃𳃄𳃅𳃆𳃇𳃈𳃉𳃊𳃋𳃌𳃍𳃎𳃏𳃐𳃑𳃒𳃓𳃔𳃕𳃖𳃗𳃘𳃙𳃚𳃛𳃜𳃝𳃞𳃟𳃠𳃡𳃢𳃣𳃤𳃥𳃦𳃧𳃨𳃩𳃪𳃫𳃬𳃭𳃮𳃯𳃰𳃱𳃲𳃳𳃴𳃵𳃶𳃷𳃸𳃹𳃺𳃻𳃼𳃽𳃾𳃿"
    \o "𳆀𳆁𳆂𳆃𳆄𳆅𳆆𳆇𳆈𳆉𳆊𳆋𳆌𳆍𳆎𳆏𳆐𳆑𳆒𳆓𳆔𳆕𳆖𳆗𳆘𳆙𳆚𳆛𳆜𳆝𳆞𳆟𳆠𳆡𳆢𳆣𳆤𳆥𳆦𳆧𳆨𳆩𳆪𳆫𳆬𳆭𳆮𳆯𳆰𳆱𳆲𳆳𳆴𳆵𳆶𳆷𳆸𳆹𳆺𳆻𳆼𳆽𳆾𳆿"
    \o "𳇀𳇁𳇂𳇃𳇄𳇅𳇆𳇇𳇈𳇉𳇊𳇋𳇌𳇍𳇎𳇏𳇐𳇑𳇒𳇓𳇔𳇕𳇖𳇗𳇘𳇙𳇚𳇛𳇜𳇝𳇞𳇟𳇠𳇡𳇢𳇣𳇤𳇥𳇦𳇧𳇨𳇩𳇪𳇫𳇬𳇭𳇮𳇯𳇰𳇱𳇲𳇳𳇴𳇵𳇶𳇷𳇸𳇹𳇺𳇻𳇼𳇽𳇾𳇿"
    \o "𳊀𳊁𳊂𳊃𳊄𳊅𳊆𳊇𳊈𳊉𳊊𳊋𳊌𳊍𳊎𳊏𳊐𳊑𳊒𳊓𳊔𳊕𳊖𳊗𳊘𳊙𳊚𳊛𳊜𳊝𳊞𳊟𳊠𳊡𳊢𳊣𳊤𳊥𳊦𳊧𳊨𳊩𳊪𳊫𳊬𳊭𳊮𳊯𳊰𳊱𳊲𳊳𳊴𳊵𳊶𳊷𳊸𳊹𳊺𳊻𳊼𳊽𳊾𳊿"
    \o "𳋀𳋁𳋂𳋃𳋄𳋅𳋆𳋇𳋈𳋉𳋊𳋋𳋌𳋍𳋎𳋏𳋐𳋑𳋒𳋓𳋔𳋕𳋖𳋗𳋘𳋙𳋚𳋛𳋜𳋝𳋞𳋟𳋠𳋡𳋢𳋣𳋤𳋥𳋦𳋧𳋨𳋩𳋪𳋫𳋬𳋭𳋮𳋯𳋰𳋱𳋲𳋳𳋴𳋵𳋶𳋷𳋸𳋹𳋺𳋻𳋼𳋽𳋾𳋿"
    \o "𳎀𳎁𳎂𳎃𳎄𳎅𳎆𳎇𳎈𳎉𳎊𳎋𳎌𳎍𳎎𳎏𳎐𳎑𳎒𳎓𳎔𳎕𳎖𳎗𳎘𳎙𳎚𳎛𳎜𳎝𳎞𳎟𳎠𳎡𳎢𳎣𳎤𳎥𳎦𳎧𳎨𳎩𳎪𳎫𳎬𳎭𳎮𳎯𳎰𳎱𳎲𳎳𳎴𳎵𳎶𳎷𳎸𳎹𳎺𳎻𳎼𳎽𳎾𳎿"
    \o "𳏀𳏁𳏂𳏃𳏄𳏅𳏆𳏇𳏈𳏉𳏊𳏋𳏌𳏍𳏎𳏏𳏐𳏑𳏒𳏓𳏔𳏕𳏖𳏗𳏘𳏙𳏚𳏛𳏜𳏝𳏞𳏟𳏠𳏡𳏢𳏣𳏤𳏥𳏦𳏧𳏨𳏩𳏪𳏫𳏬𳏭𳏮𳏯𳏰𳏱𳏲𳏳𳏴𳏵𳏶𳏷𳏸𳏹𳏺𳏻𳏼𳏽𳏾𳏿"

NumericBeyondAscii ==
    "²³¹¼½¾۰۱۲۳۴۵۶۷۸۹߀߁߂߃߄߅߆߇߈߉০১২৩৪৫৬৭৮৯৴৵৶৷৸৹૦૧૨૩૪૫૬૭૮૯௦௧௨௩௪௫௬௭௮௯௰௱"
    \o "௲೦೧೨೩೪೫೬೭೮೯෦෧෨෩෪෫෬෭෮෯໐໑໒໓໔໕໖໗໘໙႐႑႒႓႔႕႖႗႘႙ᛮᛯᛰ០១២៣៤៥៦៧៨៩៰៱៲៳៴៵៶៷៸៹"
    \o "᧐᧑᧒᧓᧔᧕᧖᧗᧘᧙᧚᪀᪁᪂᪃᪄᪅᪆᪇᪈᪉᪐᪑᪒᪓᪔᪕᪖᪗᪘᪙᮰᮱᮲᮳᮴᮵᮶᮷᮸᮹₀₁₂₃₄₅₆₇₈₉ↀↁↂↅↆↇↈ↉⒀⒁⒂⒃⒄"
    \o "⒅⒆⒇⒈⒉⒊⒋⒌⒍⒎⒏⒐⒑⒒⒓⒔⒕⒖⒗⒘⒙⒚⒛⓪⓫⓬⓭⓮⓯⓰⓱⓲⓳⓴⓵⓶⓷⓸⓹⓺⓻⓼⓽⓾⓿➀➁➂➃➄➅➆➇➈➉➊➋➌➍➎➏➐➑➒"
    \o "➓⳽㆒㆓㆔㆕㊀㊁㊂㊃㊄㊅㊆㊇㊈㊉㊱㊲㊳㊴㊵㊶㊷㊸㊹㊺㊻㊼㊽㊾㊿ꛦꛧꛨꛩꛪꛫꛬꛭꛮꛯ꣐꣑꣒꣓꣔꣕꣖꣗꣘꣙꧐꧑꧒꧓꧔꧕꧖꧗꧘꧙꧰꧱꧲"
    \o "꧳꧴꧵꧶꧷꧸꧹꯰꯱꯲꯳꯴꯵꯶꯷꯸꯹"

\* The characters that are alphanumeric and not numeric, and the numeric ones.
Letters ==
    Chars("abcdefghijklmnopqrstuvwxyzABCDEFGHIJKLMNOPQRSTUVWXYZ")
    \cup Chars(AlphabeticBeyondAscii)
    \cup Chars(AlphabeticBeyondBmp)
Digits == Chars("0123456789") \cup Chars(NumericBeyondAscii)
IsNumeric(c) == c \in Digits
IsAlphanumeric(c) == c \in Letters \/ c \in Digits

\* i32::to_string and the like.
IntToString(v) == ToString(v)

\* An f32 or f64 value: NaN, an infinity, or the float nearest to n
\* thousandths, n below a million, with its sign (so that -0.0 is a value).
\* Below that magnitude the shortest decimal that reads back as the float,
\* which is what to_string prints, is the decimal of n thousandths.
Float(neg, n) == [class |-> "finite", neg |-> neg, n |-> n]
NaN == [class |-> "nan", neg |-> FALSE, n |-> 0]
Infinity(neg) == [class |-> "inf", neg |-> neg, n |-> 0]

\* The digits after the decimal point of n thousandths, without the trailing
\* zeros.
FractionDigits(n) ==
    LET m == n % 1000
    IN  IF m % 100 = 0 THEN ToString(m \div 100)
        ELSE IF m % 10 = 0
             THEN ToString(m \div 100) \o ToString((m \div 10) % 10)
        ELSE ToString(m \div 100) \o ToString((m \div 10) % 10)
             \o ToString(m % 10)

\* f32::to_string and f64::to_string: no exponent and no trailing `.0`.
FloatToString(x) ==
    CASE x.class = "nan" -> "NaN"
      [] x.class = "inf" -> (IF x.neg THEN "-inf" ELSE "inf")
      [] x.class = "finite" ->
           (IF x.neg THEN "-" ELSE "")
           \o ToString(x.n \div 1000)
           \o (IF x.n % 1000 = 0 THEN "" ELSE "." \o FractionDigits(x.n))

(***************************************************************************)
(* The reserved-word table.                                                *)
(***************************************************************************)
RESERVED_WORDS ==
    << "break", "case", "catch", "class", "const", "continue", "debugger",
       "default", "delete", "do", "else", "enum", "export", "extends",
       "false", "finally", "for", "function", "if", "import", "in",
       "instanceof", "new", "null", "return", "super", "switch", "this",
       "throw", "true", "try", "typeof", "var", "void", "while", "with",
       "as", "implements", "interface", "let", "package", "private",
       "protected", "public", "static", "yield", "any", "boolean",
       "constructor", "declare", "get", "module", "require", "number",
       "set", "string", "symbol", "type", "from", "of", "namespace",
       "async", "await" >>

\* RESERVED_WORDS.iter().find(|v| *v == name)
FindReserved(name) ==
    IF \E i \in 1..Len(RESERVED_WORDS) : RESERVED_WORDS[i] = name
    THEN Some(RESERVED_WORDS[CHOOSE i \in 1..Len(RESERVED_WORDS) :
                                /\ RESERVED_WORDS[i] = name
                                /\ \A j \in 1..(i - 1) : RESERVED_WORDS[j] # name])
    ELSE None

(***************************************************************************)
(* sanitise_name                                                           *)
(***************************************************************************)
ValidIdent(field_name) ==
    /\ \A c \in Chars(field_name) :
          IsAlphanumeric(c) \/ c = "_" \/ c = "$"
    /\ (Len(field_name) > 0 => ~IsNumeric(FirstChar(field_name)))

\* sanitise_name quoting a reserved word like any other unusable key.
sanitise_name_QuoteReserved(type_name, field_name) ==
    Ok(IF ~ValidIdent(field_name) \/ FindReserved(field_name).some
       THEN "\"" \o field_name \o "\""
       ELSE field_name)

sanitise_name(type_name, field_name) ==
    LET found == FindReserved(field_name)
    IN  IF found.some
        THEN Err(ForbiddenFieldName(type_name, found.val))
        ELSE Ok(IF ~ValidIdent(field_name)
                THEN "\"" \o field_name \o "\""
                ELSE field_name)

(***************************************************************************)
(* The type model, as far as ts.rs reads it.                               *)
(***************************************************************************)
NarrowPrimitives == {"i8", "i16", "i32", "u8", "u16", "u32", "f32", "f64"}
WidePrimitives == {"usize", "isize", "i64", "u64", "i128", "u128"}
TextPrimitives == {"String", "char"}

AnyType == [kind |-> "Any"]
Primitive(p) == [kind |-> "Primitive", prim |-> p]
Literal(l) == [kind |-> "Literal", lit |-> l]
Nullable(t) == [kind |-> "Nullable", inner |-> t]
Record(k, v) == [kind |-> "Record", key |-> k, value |-> v]
List(t) == [kind |-> "List", inner |-> t]
TupleType(name, generics, fields) ==
    [name |-> name, generics |-> generics, fields |-> fields]
ObjectType(name, generics, fields, tag) ==
    [name |-> name, generics |-> generics, fields |-> fields, tag |-> tag]
ObjectField(name, ty, optional, flatten) ==
    [name |-> name, ty |-> ty, optional |-> optional, flatten |-> flatten]
EnumType(name, generics, variants, repr) ==
    [name |-> name, generics |-> generics, variants |-> variants, repr |-> repr]
\* DataType::Tuple(t), DataType::Object(o), DataType::Enum(e)
Tuple(t) == [kind |-> "Tuple", name |-> t.name, generics |-> t.generics,
             fields |-> t.fields]
Object(o) == [kind |-> "Object", name |-> o.name, generics |-> o.generics,
              fields |-> o.fields, tag |-> o.tag]
Enum(e) == [kind |-> "Enum", name |-> e.name, generics |-> e.generics,
            variants |-> e.variants, repr |-> e.repr]
Reference(name, generics) == [kind |-> "Reference", name |-> name, generics |-> generics]
Generic(ident) == [kind |-> "Generic", ident |-> ident]
Placeholder == [kind |-> "Placeholder"]

Internal(tag) == [kind |-> "Internal", tag |-> tag]
External == [kind |-> "External"]
Untagged == [kind |-> "Untagged"]
Adjacent(tag, content) == [kind |-> "Adjacent", tag |-> tag, content |-> content]

Unit(name) == [shape |-> "Unit", name |-> name]
Unnamed(tuple) == [shape |-> "Unnamed", tuple |-> tuple]
Named(obj) == [shape |-> "Named", obj |-> obj]

\* EnumVariant::name
VariantName(variant) ==
    CASE variant.shape = "Unit" -> variant.name
      [] variant.shape = "Unnamed" -> variant.tuple.name
      [] variant.shape = "Named" -> variant.obj.name

\* EnumVariant::data_type, on an Unnamed or Named variant
VariantDataType(variant) ==
    CASE variant.shape = "Unnamed" -> Tuple(variant.tuple)
      [] variant.shape = "Named" -> Object(variant.obj)

(***************************************************************************)
(* LiteralType::to_ts                                                      *)
(***************************************************************************)
to_ts(lit) ==
    CASE lit.kind \in {"i8", "i16", "i32", "u8", "u16", "u32"} -> IntToString(lit.v)
      [] lit.kind \in {"f32", "f64"} -> FloatToString(lit.f)
      [] lit.kind = "bool" -> (IF lit.b THEN "true" ELSE "false")
      [] lit.kind = "String" -> "\"" \o lit.s \o "\""
      [] lit.kind = "None" -> "null"

(***************************************************************************)
(* comments::js_doc                                                        *)
(***************************************************************************)
RECURSIVE JsDocLines(_)
JsDocLines(comments) ==
    IF Len(comments) = 0 THEN ""
    ELSE " * " \o comments[1] \o "\n" \o JsDocLines(Tail(comments))

js_doc(comments) ==
    IF Len(comments) = 0 THEN ""
    ELSE "/**\n" \o JsDocLines(comments) \o " */\n"

(***************************************************************************)
(* ExportConfiguration                                                     *)
(***************************************************************************)
BigIntString == [kind |-> "String"]
BigIntNumber == [kind |-> "Number"]
BigIntBigInt == [kind |-> "BigInt"]
BigIntFail == [kind |-> "Fail"]
BigIntFailWithReason(reason) == [kind |-> "FailWithReason", reason |-> reason]

\* The doc comments a DataTypeExt of the model carries.
CommentLists == {<<>>, <<"The type Widget">>, <<"first", "type ">>}

\* The fn pointer comments::js_doc, a CommentFormatterFn value: the function
\* the configuration stores, on the comment lists of the model.
js_doc_fn == [comments \in CommentLists |-> js_doc(comments)]

\* <ExportConfiguration as Default>::default
DefaultConf == [bigint |-> BigIntFail, comment_exporter |-> Some(js_doc_fn)]

\* ExportConfiguration::bigint
bigint(c, b) == [c EXCEPT !.bigint = b]

\* ExportConfiguration::comment_style
comment_style(c, exporter) == [c EXCEPT !.comment_exporter = exporter]

(***************************************************************************)
(* datatype and object_field_to_ts                                         *)
(***************************************************************************)
RECURSIVE datatype(_, _)
RECURSIVE object_field_to_ts(_, _, _)
RECURSIVE FlattenedField(_, _)
RECURSIVE UnflattenedField(_, _, _)
RECURSIVE EnumVariantToTs(_, _, _, _)
RECURSIVE TupleArm(_, _)
RECURSIVE ObjectArm_LiteralFirst(_, _)
RECURSIVE ObjectArm(_, _)
RECURSIVE EnumArm_Intersection(_, _)
RECURSIVE EnumArm(_, _)
RECURSIVE ReferenceArm(_, _)

\* The wide-numeric arm of datatype naming the TypeScript primitive `bigint`.
BigIntArm_Lowercase(c) ==
    CASE c.bigint.kind = "String" -> Ok("string")
      [] c.bigint.kind = "Number" -> Ok("number")
      [] c.bigint.kind = "BigInt" -> Ok("bigint")
      [] c.bigint.kind = "Fail" -> Err(BigIntForbidden)
      [] c.bigint.kind = "FailWithReason" -> Err(Other(c.bigint.reason))

\* The wide-numeric arm of datatype.
BigIntArm(c) ==
    CASE c.bigint.kind = "String" -> Ok("string")
      [] c.bigint.kind = "Number" -> Ok("number")
      [] c.bigint.kind = "BigInt" -> Ok("BigInt")
      [] c.bigint.kind = "Fail" -> Err(BigIntForbidden)
      [] c.bigint.kind = "FailWithReason" -> Err(Other(c.bigint.reason))

\* The closure mapped over the flattened fields of an Object.
FlattenedField(c, field) ==
    LET r == datatype(c, field.ty)
    IN  MapErrField(IF r.ok THEN Ok("(" \o r.val \o ")") ELSE r, field.name)

\* The closure mapped over the non-flattened fields of an Object.
UnflattenedField(c, name, field) ==
    LET safe == sanitise_name(name, field.name)
    IN  IF ~safe.ok THEN safe
        ELSE
          LET field_ts_str == datatype(c, field.ty)
              key == IF field.optional THEN safe.val \o "?" ELSE safe.val
              res == IF field.optional
                     THEN IF field.ty.kind = "Nullable" THEN field_ts_str
                          ELSE IF field_ts_str.ok
                               THEN Ok(field_ts_str.val \o " | null")
                               ELSE field_ts_str
                     ELSE field_ts_str
          IN  MapErrField(IF res.ok THEN Ok(key \o ": " \o res.val) ELSE res,
                          field.name)

object_field_to_ts(c, type_name, field) ==
    LET safe == sanitise_name(type_name, field.name)
    IN  IF ~safe.ok THEN safe
        ELSE
          LET key == IF field.optional THEN safe.val \o "?" ELSE safe.val
              ty == IF field.optional /\ field.ty.kind = "Nullable"
                    THEN field.ty.inner
                    ELSE field.ty
              r == datatype(c, ty)
          IN  IF r.ok THEN Ok(key \o ": " \o r.val) ELSE r

\* The closure mapped over the variants of an Enum.
EnumVariantToTs(c, name, repr, variant) ==
    LET sanitised == sanitise_name(name, VariantName(variant))
    IN  IF ~sanitised.ok THEN sanitised
        ELSE
          LET sanitised_name == sanitised.val
              payload == MapErrField(datatype(c, VariantDataType(variant)),
                                     VariantName(variant))
          IN  CASE repr.kind = "Internal" /\ variant.shape = "Unit" ->
                     Ok("{ " \o repr.tag \o ": \"" \o sanitised_name \o "\" }")
                [] repr.kind = "Internal" /\ variant.shape = "Unnamed" ->
                     LET typ == MapErrField(datatype(c, Tuple(variant.tuple)),
                                            VariantName(variant))
                     IN  IF ~typ.ok THEN typ
                         ELSE Ok("({ " \o repr.tag \o ": \"" \o sanitised_name
                                 \o "\" } & " \o typ.val \o ")")
                [] repr.kind = "Internal" /\ variant.shape = "Named" ->
                     LET rest == Collect([i \in 1..Len(variant.obj.fields) |->
                                    object_field_to_ts(c, name, variant.obj.fields[i])])
                     IN  IF ~rest.ok THEN rest
                         ELSE Ok("{ " \o Join(<<repr.tag \o ": \"" \o sanitised_name
                                                \o "\"">> \o rest.val, "; ")
                                 \o " }")
                [] repr.kind = "External" /\ variant.shape = "Unit" ->
                     Ok("\"" \o sanitised_name \o "\"")
                [] repr.kind = "External" /\ variant.shape # "Unit" ->
                     IF ~payload.ok THEN payload
                     ELSE Ok("{ " \o sanitised_name \o ": " \o payload.val \o " }")
                [] repr.kind = "Untagged" /\ variant.shape = "Unit" ->
                     Ok("null")
                [] repr.kind = "Untagged" /\ variant.shape # "Unit" ->
                     payload
                [] repr.kind = "Adjacent" /\ variant.shape = "Unit" ->
                     Ok("{ " \o repr.tag \o ": \"" \o sanitised_name \o "\" }")
                [] repr.kind = "Adjacent" /\ variant.shape # "Unit" ->
                     IF ~payload.ok THEN payload
                     ELSE Ok("{ " \o repr.tag \o ": \"" \o sanitised_name \o "\"; "
                             \o repr.content \o ": " \o payload.val \o " }")

\* The Tuple arm of datatype.
TupleArm(c, typ) ==
    IF Len(typ.fields) = 0 THEN Ok("null")
    ELSE IF Len(typ.fields) = 1 THEN datatype(c, typ.fields[1])
    ELSE LET tys == Collect([i \in 1..Len(typ.fields) |-> datatype(c, typ.fields[i])])
         IN  IF ~tys.ok THEN tys
             ELSE Ok("[" \o Join(tys.val, ", ") \o "]")

\* The Object arm of datatype with the object literal written before the
\* flattened pieces.
ObjectArm_LiteralFirst(c, typ) ==
    IF Len(typ.fields) = 0 THEN Ok("null")
    ELSE
      LET flat == SelectSeq(typ.fields, LAMBDA f : f.flatten)
          unflat == SelectSeq(typ.fields, LAMBDA f : ~f.flatten)
          field_sections ==
              Collect([i \in 1..Len(flat) |-> FlattenedField(c, flat[i])])
      IN  IF ~field_sections.ok THEN field_sections
          ELSE
            LET unflattened_fields ==
                    Collect([i \in 1..Len(unflat) |->
                                UnflattenedField(c, typ.name, unflat[i])])
            IN  IF ~unflattened_fields.ok THEN unflattened_fields
                ELSE
                  LET withTag ==
                          IF typ.tag.some
                          THEN Append(unflattened_fields.val,
                                      typ.tag.val \o ": \"" \o typ.name \o "\"")
                          ELSE unflattened_fields.val
                      sections ==
                          IF Len(withTag) # 0
                          THEN <<"{ " \o Join(withTag, "; ") \o " }">>
                               \o field_sections.val
                          ELSE field_sections.val
                  IN  Ok(Join(sections, " & "))

\* The Object arm of datatype.
ObjectArm(c, typ) ==
    IF Len(typ.fields) = 0 THEN Ok("null")
    ELSE
      LET flat == SelectSeq(typ.fields, LAMBDA f : f.flatten)
          unflat == SelectSeq(typ.fields, LAMBDA f : ~f.flatten)
          field_sections ==
              Collect([i \in 1..Len(flat) |-> FlattenedField(c, flat[i])])
      IN  IF ~field_sections.ok THEN field_sections
          ELSE
            LET unflattened_fields ==
                    Collect([i \in 1..Len(unflat) |->
                                UnflattenedField(c, typ.name, unflat[i])])
            IN  IF ~unflattened_fields.ok THEN unflattened_fields
                ELSE
                  LET withTag ==
                          IF typ.tag.some
                          THEN Append(unflattened_fields.val,
                                      typ.tag.val \o ": \"" \o typ.name \o "\"")
                          ELSE unflattened_fields.val
                      sections ==
                          IF Len(withTag) # 0
                          THEN Append(field_sections.val,
                                      "{ " \o Join(withTag, "; ") \o " }")
                          ELSE field_sections.val
                  IN  Ok(Join(sections, " & "))

\* The Enum arm of datatype with the variants joined by ` & `.
EnumArm_Intersection(c, typ) ==
    IF Len(typ.variants) = 0 THEN Ok("never")
    ELSE LET vs == Collect([i \in 1..Len(typ.variants) |->
                               EnumVariantToTs(c, typ.name, typ.repr, typ.variants[i])])
         IN  IF ~vs.ok THEN vs ELSE Ok(Join(vs.val, " & "))

\* The Enum arm of datatype.
EnumArm(c, typ) ==
    IF Len(typ.variants) = 0 THEN Ok("never")
    ELSE LET vs == Collect([i \in 1..Len(typ.variants) |->
                               EnumVariantToTs(c, typ.name, typ.repr, typ.variants[i])])
         IN  IF ~vs.ok THEN vs ELSE Ok(Join(vs.val, " | "))

\* The Reference arm of datatype.
ReferenceArm(c, typ) ==
    IF Len(typ.generics) = 0 THEN Ok(typ.name)
    ELSE LET gs == Collect([i \in 1..Len(typ.generics) |->
                               datatype(c, typ.generics[i])])
         IN  IF ~gs.ok THEN gs
             ELSE Ok(typ.name \o "<" \o Join(gs.val, ", ") \o ">")

datatype(c, typ) ==
    CASE typ.kind = "Any" -> Ok("any")
      [] typ.kind = "Primitive" /\ typ.prim \in NarrowPrimitives -> Ok("number")
      [] typ.kind = "Primitive" /\ typ.prim \in WidePrimitives -> BigIntArm(c)
      [] typ.kind = "Primitive" /\ typ.prim \in TextPrimitives -> Ok("string")
      [] typ.kind = "Primitive" /\ typ.prim = "bool" -> Ok("boolean")
      [] typ.kind = "Literal" -> Ok(to_ts(typ.lit))
      [] typ.kind = "Nullable" ->
           LET r == datatype(c, typ.inner)
           IN  IF r.ok THEN Ok(r.val \o " | null") ELSE r
      [] typ.kind = "Record" ->
           LET k == datatype(c, typ.key)
           IN  IF ~k.ok THEN k
               ELSE LET v == datatype(c, typ.value)
                    IN  IF ~v.ok THEN v
                        ELSE Ok("{ [key: " \o k.val \o "]: " \o v.val \o " }")
      [] typ.kind = "List" ->
           LET r == datatype(c, typ.inner)
           IN  IF r.ok THEN Ok(r.val \o "[]") ELSE r
      [] typ.kind = "Tuple" -> TupleArm(c, typ)
      [] typ.kind = "Object" -> ObjectArm(c, typ)
      [] typ.kind = "Enum" -> EnumArm(c, typ)
      [] typ.kind = "Reference" -> ReferenceArm(c, typ)
      [] typ.kind = "Generic" -> Ok(typ.ident)
      [] typ.kind = "Placeholder" ->
           Err(InternalError("Attempted to export a placeholder!"))

(***************************************************************************)
(* export_datatype                                                         *)
(***************************************************************************)
\* match generics.len() { 0 => "", _ => format!("<{}>", generics.join(", ")) }
GenericsText(generics) ==
    IF Len(generics) = 0 THEN "" ELSE "<" \o Join(generics, ", ") \o ">"

\* conf.comment_exporter.map(|v| v(def.comments)).unwrap_or_default()
CommentsText(c, d) ==
    IF c.comment_exporter.some THEN c.comment_exporter.val[d.comments] ELSE ""

\* The declaration match with the Enum arm's anonymous check copied from the
\* Object arm, error included.
Declaration_EnumAsObject(d, inline_ts) ==
    LET inner == d.inner
    IN  CASE inner.kind \in {"Object", "Enum"} ->
               IF inner.name = "" THEN Err(AnonymousObject)
               ELSE IF FindReserved(inner.name).some
                    THEN Err(ForbiddenTypeName(FindReserved(inner.name).val))
               ELSE Ok("type " \o inner.name \o GenericsText(inner.generics)
                       \o " = " \o inline_ts)
          [] inner.kind = "Tuple" ->
               IF FindReserved(inner.name).some
               THEN Err(ForbiddenTypeName(FindReserved(inner.name).val))
               ELSE Ok("type " \o inner.name \o GenericsText(inner.generics)
                       \o " = " \o inline_ts)
          [] OTHER -> Err(CannotExport(d))

\* The declaration match with no reserved-word check on a Tuple, which has
\* no anonymous check either.
Declaration_TupleUnchecked(d, inline_ts) ==
    LET inner == d.inner
    IN  CASE inner.kind = "Object" ->
               IF inner.name = "" THEN Err(AnonymousObject)
               ELSE IF FindReserved(inner.name).some
                    THEN Err(ForbiddenTypeName(FindReserved(inner.name).val))
               ELSE IF Len(inner.fields) = 0
                    THEN Ok("type " \o inner.name \o " = " \o inline_ts)
               ELSE Ok("type " \o inner.name \o GenericsText(inner.generics)
                       \o " = " \o inline_ts)
          [] inner.kind = "Enum" ->
               IF inner.name = "" THEN Err(AnonymousEnum)
               ELSE IF FindReserved(inner.name).some
                    THEN Err(ForbiddenTypeName(FindReserved(inner.name).val))
               ELSE Ok("type " \o inner.name \o GenericsText(inner.generics)
                       \o " = " \o inline_ts)
          [] inner.kind = "Tuple" ->
               Ok("type " \o inner.name \o GenericsText(inner.generics)
                  \o " = " \o inline_ts)
          [] OTHER -> Err(CannotExport(d))

\* The `match &def.inner` of export_datatype: the declaration, or the error.
Declaration(d, inline_ts) ==
    LET inner == d.inner
    IN  CASE inner.kind = "Object" ->
               IF inner.name = "" THEN Err(AnonymousObject)
               ELSE IF FindReserved(inner.name).some
                    THEN Err(ForbiddenTypeName(FindReserved(inner.name).val))
               ELSE IF Len(inner.fields) = 0
                    THEN Ok("type " \o inner.name \o " = " \o inline_ts)
               ELSE Ok("type " \o inner.name \o GenericsText(inner.generics)
                       \o " = " \o inline_ts)
          [] inner.kind = "Enum" ->
               IF inner.name = "" THEN Err(AnonymousEnum)
               ELSE IF FindReserved(inner.name).some
                    THEN Err(ForbiddenTypeName(FindReserved(inner.name).val))
               ELSE Ok("type " \o inner.name \o GenericsText(inner.generics)
                       \o " = " \o inline_ts)
          [] inner.kind = "Tuple" ->
               IF FindReserved(inner.name).some
               THEN Err(ForbiddenTypeName(FindReserved(inner.name).val))
               ELSE Ok("type " \o inner.name \o GenericsText(inner.generics)
                       \o " = " \o inline_ts)
          [] OTHER -> Err(CannotExport(d))

\* export_datatype with the comment block written after the `export` keyword.
export_datatype_CommentsInside(c, d) ==
    LET inline_ts == datatype(c, d.inner)
    IN  IF ~inline_ts.ok
        THEN Err(WithCtx(Some(d.name), None, inline_ts.err))
        ELSE LET declaration == Declaration(d, inline_ts.val)
             IN  IF ~declaration.ok THEN declaration
                 ELSE Ok("export " \o CommentsText(c, d) \o declaration.val)

export_datatype(c, d) ==
    LET inline_ts == datatype(c, d.inner)
    IN  IF ~inline_ts.ok
        THEN Err(WithCtx(Some(d.name), None, inline_ts.err))
        ELSE LET declaration == Declaration(d, inline_ts.val)
             IN  IF ~declaration.ok THEN declaration
                 ELSE Ok(CommentsText(c, d) \o "export " \o declaration.val)

(***************************************************************************)
(* The inputs: the type models handed to the exporter.                     *)
(***************************************************************************)
\* The longest field list, variant list and tuple element list.
MaxFields == 2
\* The longest generic parameter list of a declaration.
MaxGenerics == 2

\* Sequences over S of length at most n.
SeqsUpTo(S, n) == UNION {[1..k -> S] : k \in 0..n}

\* Sequences of length at most n that hold at most one element of S among
\* copies of `common`: one field (variant) of interest among ordinary ones.
ListsAround(S, common, n) ==
    {[i \in 1..k |-> common] : k \in 0..n}
    \cup UNION {UNION {{[i \in 1..k |-> IF i = p THEN x ELSE common] : x \in S} :
                       p \in 1..k} :
                k \in 1..n}

DeclNames == {"Widget", "", "class", "my-type", "e"}
FieldNames == {"a", "class", "my-key", "1x", "é"}
GenericLists == {SubSeq(<<"T", "U", "V", "W">>, 1, k) : k \in 0..MaxGenerics}

InnerObject ==
    Object(ObjectType("Inner", <<>>,
                      <<ObjectField("n", Primitive("i64"), FALSE, FALSE)>>, None))
LeafTypes == {Primitive("String"), Primitive("u64"), Placeholder, InnerObject}
FieldTypes == LeafTypes \cup {Nullable(t) : t \in LeafTypes}
                        \cup {Nullable(Nullable(Primitive("String")))}

\* An ordinary field: fine under every policy but the failing ones.
CommonField == ObjectField("w", Primitive("u64"), FALSE, FALSE)
Fields ==
    {ObjectField(n, t, o, f) :
        n \in FieldNames, t \in FieldTypes, o \in BOOLEAN, f \in BOOLEAN}
\* Every type, flag and flatten setting under the plain name; every name
\* under the plain type.
FieldsOfInterest ==
    {fld \in Fields : \/ fld.name = "a"
                      \/ fld.ty = Primitive("String") /\ ~fld.optional}
FieldLists(n) == ListsAround(FieldsOfInterest, CommonField, n)

ElemTypes == {Primitive("i32"), Primitive("u64"), Placeholder}
ElemLists(n) == SeqsUpTo(ElemTypes, n)

Reprs == {Internal("type"), External, Untagged, Adjacent("t", "c")}
CommonVariant == Unit("B")
VariantsOfInterest(n) ==
    {Unit(nm) : nm \in FieldNames}
    \cup {Unnamed(TupleType("A", <<>>, es)) : es \in ElemLists(n)}
    \cup {Named(ObjectType("A", <<>>, fs, None)) : fs \in FieldLists(n - 1)}
VariantLists(n) == ListsAround(VariantsOfInterest(n), CommonVariant, n)

\* The head of a declaration: its name, generic parameters and doc comments.
\* Generic parameters vary on the well-named declaration only; it carries
\* the one-line comment, and the declaration `e`, whose name begins the word
\* `export`, the two-line one.
PlainHead == [name |-> "Widget", generics |-> <<>>, comments |-> <<>>]
Heads ==
    {h \in [name : DeclNames, generics : GenericLists, comments : CommentLists] :
        /\ \/ h.name = "Widget" /\ h.comments # <<"first", "type ">>
           \/ h.name # "e" /\ h.generics = <<>> /\ h.comments = <<>>
           \/ h.name = "e" /\ h.generics = <<>> /\ h.comments = <<"first", "type ">>
        /\ h.generics = <<>> \/ h.comments = <<>>}
\* The plain declaration carries the longest bodies, the others one shorter.
BodyBound(h) == IF h = PlainHead THEN MaxFields ELSE MaxFields - 1

Ext(h, inner) == [name |-> h.name, comments |-> h.comments, inner |-> inner]

ObjectExts ==
    UNION {{Ext(h, Object(ObjectType(h.name, h.generics, fs, t))) :
               fs \in FieldLists(BodyBound(h)), t \in {None, Some("kind")}} :
           h \in Heads}
EnumExts ==
    UNION {{Ext(h, Enum(EnumType(h.name, h.generics, vs, r))) :
               vs \in VariantLists(BodyBound(h)), r \in Reprs} :
           h \in Heads}
TupleExts ==
    UNION {{Ext(h, Tuple(TupleType(h.name, h.generics, es))) :
               es \in ElemLists(MaxFields)} :
           h \in Heads}
Others ==
    {AnyType, Placeholder, Generic("T")}
    \cup {Primitive(p) : p \in {"i32", "u64", "String", "char", "bool", "f64", "usize"}}
    \cup {Literal(l) : l \in {[kind |-> "i32", v |-> 5], [kind |-> "u8", v |-> 0],
                              [kind |-> "i8", v |-> -3],
                              [kind |-> "bool", b |-> TRUE],
                              [kind |-> "bool", b |-> FALSE],
                              [kind |-> "String", s |-> "foo"],
                              [kind |-> "None"]}}
    \cup {Literal([kind |-> k, f |-> x]) :
             k \in {"f32", "f64"},
             x \in {Float(FALSE, 1500), Float(FALSE, 2000), Float(TRUE, 0),
                    Float(TRUE, 250), Float(FALSE, 10005), NaN,
                    Infinity(FALSE), Infinity(TRUE)}}
    \cup {Nullable(t) : t \in ElemTypes}
    \cup {List(t) : t \in ElemTypes}
    \cup {Record(Primitive("String"), t) : t \in ElemTypes}
    \cup {Reference("Widget", gs) : gs \in ElemLists(MaxFields)}
OtherExts == {Ext(PlainHead, t) : t \in Others}

\* DataTypeExt: the name and comments beside the inner node.
DataTypeExts == ObjectExts \cup EnumExts \cup TupleExts \cup OtherExts

BigIntBehaviors ==
    {BigIntString, BigIntNumber, BigIntBigInt, BigIntFail, BigIntFailWithReason("m")}
\* A formatter of the caller: the comments as they are, with a space between
\* them and nothing after the last.
plain_comments(comments) == Join(comments, " ")
plain_comments_fn == [comments \in CommentLists |-> plain_comments(comments)]
CommentExporters == {None, Some(js_doc_fn), Some(plain_comments_fn)}

(***************************************************************************)
(* The state machine: a configuration is built, then one entry point is    *)
(* called on the type model.                                               *)
(***************************************************************************)
NoResult == [ok |-> FALSE, err |-> [kind |-> "NotCalled"]]

Init ==
    /\ conf = DefaultConf
    /\ def \in DataTypeExts
    /\ call = "none"
    /\ args = <<>>
    /\ result = NoResult

SetBigint ==
    /\ call = "none"
    /\ \E b \in BigIntBehaviors : conf' = bigint(conf, b)
    /\ UNCHANGED <<def, call, args, result>>

SetCommentStyle ==
    /\ call = "none"
    /\ \E e \in CommentExporters : conf' = comment_style(conf, e)
    /\ UNCHANGED <<def, call, args, result>>

ExportDatatype ==
    /\ call = "none"
    /\ call' = "export_datatype"
    /\ result' = export_datatype(conf, def)
    /\ UNCHANGED <<conf, def, args>>

Datatype ==
    /\ call = "none"
    /\ call' = "datatype"
    /\ result' = datatype(conf, def.inner)
    /\ UNCHANGED <<conf, def, args>>

\* The (type name, field) pairs the model hands to object_field_to_ts and
\* sanitise_name: the fields of the Object, or of the Enum's Named variants.
FieldArgs(d) ==
    CASE d.inner.kind = "Object" ->
           {<<d.inner.name, d.inner.fields[i]>> : i \in 1..Len(d.inner.fields)}
      [] d.inner.kind = "Enum" ->
           UNION {LET v == d.inner.variants[i]
                  IN  IF v.shape = "Named"
                      THEN {<<d.inner.name, v.obj.fields[j]>> :
                               j \in 1..Len(v.obj.fields)}
                      ELSE {} : i \in 1..Len(d.inner.variants)}
      [] OTHER -> {}

NameArgs(d) ==
    {<<a[1], a[2].name>> : a \in FieldArgs(d)}
    \cup (IF d.inner.kind = "Enum"
          THEN {<<d.inner.name, VariantName(d.inner.variants[i])>> :
                   i \in 1..Len(d.inner.variants)}
          ELSE {})

ObjectFieldToTs ==
    /\ call = "none"
    /\ \E a \in FieldArgs(def) :
          /\ args' = a
          /\ result' = object_field_to_ts(conf, a[1], a[2])
    /\ call' = "object_field_to_ts"
    /\ UNCHANGED <<conf, def>>

SanitiseName ==
    /\ call = "none"
    /\ \E a \in NameArgs(def) :
          /\ args' = a
          /\ result' = sanitise_name(a[1], a[2])
    /\ call' = "sanitise_name"
    /\ UNCHANGED <<conf, def>>

Next ==
    \/ SetBigint
    \/ SetCommentStyle
    \/ ExportDatatype
    \/ Datatype
    \/ ObjectFieldToTs
    \/ SanitiseName

Spec == Init /\ [][Next]_vars

(***************************************************************************)
(* Vocabulary of the properties.                                           *)
(***************************************************************************)
\* The number of places where pat occurs in s.
CountOcc(s, pat) ==
    Cardinality({i \in 1..(Len(s) - Len(pat) + 1) :
                    SubSeq(s, i, i + Len(pat) - 1) = pat})
Contains(s, pat) == CountOcc(s, pat) > 0
StartsWith(s, pre) == Len(pre) <= Len(s) /\ SubSeq(s, 1, Len(pre)) = pre
EndsWith(s, suf) ==
    Len(suf) <= Len(s) /\ SubSeq(s, Len(s) - Len(suf) + 1, Len(s)) = suf

IsReserved(name) == \E i \in 1..Len(RESERVED_WORDS) : RESERVED_WORDS[i] = name

\* The error at the bottom of a chain of WithCtx wrappers.
RECURSIVE RootCause(_)
RootCause(e) == IF e.kind = "WithCtx" THEN RootCause(e.err) ELSE e

Declarable(t) == t.kind \in {"Object", "Enum", "Tuple"}

\* The call under observation and its input.
Exported == call = "export_datatype"
Converted == call = "datatype"
inner == def.inner

(***************************************************************************)
(* C1                                                                      *)
(***************************************************************************)
C1Case == Exported /\ Declarable(inner) /\ inner.name # "" /\ ~IsReserved(inner.name)

\* C1 as stated: for every configuration, export_datatype on an Object, Enum
\* or Tuple with a non-empty name that is not reserved returns Ok, and the
\* returned string contains `type <name>` exactly once.
C1_AlwaysOk ==
    C1Case => /\ result.ok
              /\ CountOcc(result.val, "type " \o inner.name) = 1

\* C1 as amended: on such an input export_datatype returns Ok exactly when
\* datatype on the inner node does, and otherwise that error inside a WithCtx
\* carrying the type's name; on success the returned string is the comment
\* block followed by `export type <name>`, and holds `type <name>` exactly
\* once when the name is an identifier and neither the text before the
\* declaration (the comment block followed by `export `), the generic
\* parameters nor the body spell `type <name>` themselves.
C1_OkWhenBodyOk ==
    C1Case =>
      LET body == datatype(conf, inner)
          pat == "type " \o inner.name
          own == CommentsText(conf, def) \o "export " \o pat
      IN  /\ result.ok <=> body.ok
          /\ ~body.ok => result = Err(WithCtx(Some(def.name), None, body.err))
          /\ body.ok =>
               /\ StartsWith(result.val, own)
               /\ ( /\ ValidIdent(inner.name)
                    /\ ~Contains(CommentsText(conf, def) \o "export ", pat)
                    /\ ~Contains(GenericsText(inner.generics), pat)
                    /\ ~Contains(body.val, pat)
                    => CountOcc(result.val, pat) = 1 )

\* A generic Enum was exported as one declaration.
C1_Witness ==
    /\ C1Case /\ result.ok
    /\ inner.kind = "Enum" /\ Len(inner.variants) = 1 /\ Len(inner.generics) = 2
    /\ CountOcc(result.val, "type " \o inner.name) = 1

(***************************************************************************)
(* C2                                                                      *)
(***************************************************************************)
\* The positions of the fields (variants) that carry a reserved name.
ReservedFields(fields) == {i \in 1..Len(fields) : IsReserved(fields[i].name)}
ReservedVariants(variants) ==
    {i \in 1..Len(variants) : IsReserved(VariantName(variants[i]))}
Min(S) == CHOOSE i \in S : \A j \in S : i <= j

\* No error of the chain e names a word outside the table.
RECURSIVE OnlyTableNames(_)
OnlyTableNames(e) ==
    CASE e.kind = "WithCtx" -> OnlyTableNames(e.err)
      [] e.kind \in {"ForbiddenTypeName", "ForbiddenFieldName"} -> IsReserved(e.name)
      [] OTHER -> TRUE

\* C2 as stated: a declaration named by a reserved word w fails with
\* ForbiddenTypeName(w); an Object with a field named w, or an Enum with a
\* variant named w, fails with ForbiddenFieldName(owner, w); no other name
\* triggers either error.
C2_ReservedAlwaysForbidden ==
    /\ Exported /\ Declarable(inner) /\ IsReserved(inner.name)
         => result = Err(ForbiddenTypeName(inner.name))
    /\ Converted /\ inner.kind = "Object" /\ ReservedFields(inner.fields) # {}
         => \E i \in ReservedFields(inner.fields) :
               result = Err(ForbiddenFieldName(inner.name, inner.fields[i].name))
    /\ Converted /\ inner.kind = "Enum" /\ ReservedVariants(inner.variants) # {}
         => \E i \in ReservedVariants(inner.variants) :
               result = Err(ForbiddenFieldName(inner.name,
                                               VariantName(inner.variants[i])))
    /\ call # "none" /\ ~result.ok => OnlyTableNames(result.err)

\* C2 as amended: a declaration named by a reserved word w fails with
\* ForbiddenTypeName(w) when its body converts, and with the body's error
\* inside a WithCtx otherwise; datatype on an Object with a non-flattened
\* field named w always fails, with ForbiddenFieldName(object name, w) for
\* the first such field when every flattened field and every non-flattened
\* field before it converts, while the name of a flattened field is never
\* checked; datatype on an Enum with a variant named w always fails, with
\* ForbiddenFieldName(enum name, w) for the first such variant when every
\* variant before it converts; no name outside the table triggers either
\* error.
C2_ReservedForbiddenInOrder ==
    /\ Exported /\ Declarable(inner) /\ IsReserved(inner.name)
         => LET body == datatype(conf, inner)
            IN  result = IF body.ok
                         THEN Err(ForbiddenTypeName(inner.name))
                         ELSE Err(WithCtx(Some(def.name), None, body.err))
    /\ Converted /\ inner.kind = "Object"
         => LET flat == SelectSeq(inner.fields, LAMBDA f : f.flatten)
                unflat == SelectSeq(inner.fields, LAMBDA f : ~f.flatten)
                res == ReservedFields(unflat)
            IN  /\ res # {} =>
                     /\ ~result.ok
                     /\ ( /\ \A i \in 1..Len(flat) : datatype(conf, flat[i].ty).ok
                          /\ \A i \in 1..(Min(res) - 1) :
                                datatype(conf, unflat[i].ty).ok
                          => result = Err(ForbiddenFieldName(inner.name,
                                                             unflat[Min(res)].name)) )
                /\ ( /\ res = {}
                     /\ \A i \in 1..Len(inner.fields) :
                           datatype(conf, inner.fields[i].ty).ok )
                     => result.ok
    /\ Converted /\ inner.kind = "Enum"
         => LET res == ReservedVariants(inner.variants)
            IN  res # {} =>
                  /\ ~result.ok
                  /\ ( (\A i \in 1..(Min(res) - 1) :
                           EnumVariantToTs(conf, inner.name, inner.repr,
                                           inner.variants[i]).ok)
                       => result = Err(ForbiddenFieldName(
                                         inner.name,
                                         VariantName(inner.variants[Min(res)]))) )
    /\ call # "none" /\ ~result.ok => OnlyTableNames(result.err)

\* A reserved field name was refused behind a field that converted.
C2_Witness ==
    /\ Converted /\ inner.kind = "Object" /\ Len(inner.fields) = 2
    /\ inner.fields[2].name = "class"
    /\ result = Err(ForbiddenFieldName("Widget", "class"))

(***************************************************************************)
(* C3                                                                      *)
(***************************************************************************)
\* The keyed fields the conversion of t writes: the non-flattened fields of
\* an Object, or of the Named variants of an Enum.
KeyedFields(t) ==
    CASE t.kind = "Object" ->
           {t.fields[i] : i \in {j \in 1..Len(t.fields) : ~t.fields[j].flatten}}
      [] t.kind = "Enum" ->
           UNION {LET v == t.variants[i]
                  IN  IF v.shape = "Named"
                      THEN {v.obj.fields[j] :
                              j \in {k \in 1..Len(v.obj.fields) :
                                        ~v.obj.fields[k].flatten}}
                      ELSE {} : i \in 1..Len(t.variants)}
      [] OTHER -> {}

\* The entry the nullable-merge law prescribes for an optional field:
\* `key?: emit(T) | null`, T being the type under the field's Nullable if it
\* has one.  Defined when the field's name and T convert.
MergedEntry(c, f) ==
    LET T == IF f.ty.kind = "Nullable" THEN f.ty.inner ELSE f.ty
    IN  sanitise_name("", f.name).val \o "?: " \o datatype(c, T).val \o " | null"
MergeApplies(c, f) ==
    LET T == IF f.ty.kind = "Nullable" THEN f.ty.inner ELSE f.ty
    IN  /\ f.optional
        /\ datatype(c, T).ok
        /\ ~Contains(datatype(c, T).val, "| null")

\* C3, the nullable-merge law: every optional field written for an Object or
\* for a Named enum variant, under any representation, appears as
\* `key?: emit(T) | null` with exactly one `| null`, whether its type is
\* Nullable(T) or a non-Nullable T.
C3_NullableMerge ==
    Converted /\ result.ok =>
      \A f \in KeyedFields(inner) :
         MergeApplies(conf, f) =>
           \/ Contains(result.val, MergedEntry(conf, f) \o " }")
           \/ Contains(result.val, MergedEntry(conf, f) \o ";")

(***************************************************************************)
(* C4                                                                      *)
(***************************************************************************)
\* s without its first Len(pre) and last Len(suf) characters.
Between(s, pre, suf) == SubSeq(s, Len(pre) + 1, Len(s) - Len(suf))

\* The payload text inside the conversion `text` of the single variant v,
\* sanitised name N, under representation r: what is left when the wrapping
\* of the representation is taken away.  For an internally tagged Named
\* variant the fields after the tag, as an object literal.
PayloadOf(r, v, N, text) ==
    CASE r.kind = "Internal" /\ v.shape = "Unnamed" ->
           Between(text, "({ " \o r.tag \o ": \"" \o N \o "\" } & ", ")")
      [] r.kind = "Internal" /\ v.shape = "Named" ->
           "{ " \o Between(text, "{ " \o r.tag \o ": \"" \o N \o "\"; ", "")
      [] r.kind = "External" ->
           Between(text, "{ " \o N \o ": ", " }")
      [] r.kind = "Untagged" -> text
      [] r.kind = "Adjacent" ->
           Between(text, "{ " \o r.tag \o ": \"" \o N \o "\"; " \o r.content \o ": ",
                   " }")

\* C4, the enum representation law: converting the same Enum under another
\* representation fails exactly when it fails under this one, and the payload
\* text of an Unnamed or Named variant is the same under all four.
C4_ReprChangesOnlyWrapping ==
    Converted /\ inner.kind = "Enum" =>
      \A r \in Reprs :
         LET other == datatype(conf, [inner EXCEPT !.repr = r])
         IN  /\ other.ok <=> result.ok
             /\ ( /\ other.ok /\ result.ok
                  /\ Len(inner.variants) = 1
                  /\ inner.variants[1].shape # "Unit"
                  /\ inner.variants[1].shape = "Named"
                       => Len(inner.variants[1].obj.fields) > 0 )
                  => LET v == inner.variants[1]
                         N == sanitise_name(inner.name, VariantName(v)).val
                     IN  PayloadOf(inner.repr, v, N, result.val)
                           = PayloadOf(r, v, N, other.val)

(***************************************************************************)
(* C5                                                                      *)
(***************************************************************************)
\* C5: an error raised while converting the type of an Object field, or the
\* payload of an enum variant, comes back inside a WithCtx whose field_name
\* is the name of that field or variant; so a wide-numeric field under Fail
\* yields BigIntForbidden inside a WithCtx naming the field.
C5_ErrorsCarryFieldName ==
    /\ Converted /\ inner.kind = "Object" /\ ~result.ok
       /\ RootCause(result.err).kind # "ForbiddenFieldName"
         => /\ result.err.kind = "WithCtx"
            /\ \E i \in 1..Len(inner.fields) :
                  LET r == datatype(conf, inner.fields[i].ty)
                  IN  /\ ~r.ok
                      /\ result.err = WithCtx(None, Some(inner.fields[i].name), r.err)
    /\ Converted /\ inner.kind = "Enum" /\ ~result.ok
       /\ RootCause(result.err).kind # "ForbiddenFieldName"
         => /\ result.err.kind = "WithCtx"
            /\ \E i \in 1..Len(inner.variants) :
                  result.err.field_name = Some(VariantName(inner.variants[i]))

(***************************************************************************)
(* C6                                                                      *)
(***************************************************************************)
\* C6 as stated: for every configuration and body, export_datatype returns
\* AnonymousObject on an Object without a name, AnonymousEnum on an Enum
\* without a name, and CannotExport with the input on any node that is not
\* an Object, Enum or Tuple.
C6_RejectedWhateverTheBody ==
    Exported =>
      /\ inner.kind = "Object" /\ inner.name = "" => result = Err(AnonymousObject)
      /\ inner.kind = "Enum" /\ inner.name = "" => result = Err(AnonymousEnum)
      /\ ~Declarable(inner) => result = Err(CannotExport(def))

\* C6 as amended: those three errors are returned whenever datatype on the
\* inner node succeeds; when it fails, as it always does on a Placeholder,
\* export_datatype returns that error inside a WithCtx carrying def.name.
C6_RejectedWhenBodyConverts ==
    Exported /\ (~Declarable(inner) \/ (inner.kind # "Tuple" /\ inner.name = "")) =>
      LET body == datatype(conf, inner)
      IN  /\ ~body.ok => result = Err(WithCtx(Some(def.name), None, body.err))
          /\ body.ok =>
               result = CASE inner.kind = "Object" -> Err(AnonymousObject)
                          [] inner.kind = "Enum" -> Err(AnonymousEnum)
                          [] OTHER -> Err(CannotExport(def))
          /\ inner.kind = "Placeholder" => ~body.ok

\* An anonymous Enum whose variants converted was refused.
C6_Witness ==
    /\ Exported /\ inner.kind = "Enum" /\ inner.name = ""
    /\ Len(inner.variants) > 0
    /\ result = Err(AnonymousEnum)

(***************************************************************************)
(* C7                                                                      *)
(***************************************************************************)
\* C7: a declaration name is never quoted; export_datatype on an Object, Enum
\* or Tuple whose name is not a bare identifier fails, and with
\* ForbiddenTypeName when the body converts, instead of writing a declaration
\* under that name.
C7_InvalidNameRefused ==
    Exported /\ Declarable(inner) /\ ~ValidIdent(inner.name) =>
      /\ ~result.ok
      /\ datatype(conf, inner).ok => result.err.kind = "ForbiddenTypeName"

(***************************************************************************)
(* C8                                                                      *)
(***************************************************************************)
\* The type t with `sub` in place of every wide-numeric primitive.
RECURSIVE ReplaceWide(_, _)
ReplaceWide(t, sub) ==
    LET InFields(fs) == [i \in 1..Len(fs) |->
                            [fs[i] EXCEPT !.ty = ReplaceWide(fs[i].ty, sub)]]
        InTypes(ts) == [i \in 1..Len(ts) |-> ReplaceWide(ts[i], sub)]
        InVariant(v) ==
            CASE v.shape = "Unit" -> v
              [] v.shape = "Unnamed" ->
                   [v EXCEPT !.tuple.fields = InTypes(v.tuple.fields)]
              [] v.shape = "Named" ->
                   [v EXCEPT !.obj.fields = InFields(v.obj.fields)]
    IN  CASE t.kind = "Primitive" /\ t.prim \in WidePrimitives -> sub
          [] t.kind \in {"Nullable", "List"} ->
               [t EXCEPT !.inner = ReplaceWide(t.inner, sub)]
          [] t.kind = "Record" ->
               [t EXCEPT !.key = ReplaceWide(t.key, sub),
                         !.value = ReplaceWide(t.value, sub)]
          [] t.kind = "Tuple" -> [t EXCEPT !.fields = InTypes(t.fields)]
          [] t.kind = "Object" -> [t EXCEPT !.fields = InFields(t.fields)]
          [] t.kind = "Enum" ->
               [t EXCEPT !.variants = [i \in 1..Len(t.variants) |->
                                          InVariant(t.variants[i])]]
          [] t.kind = "Reference" -> [t EXCEPT !.generics = InTypes(t.generics)]
          [] OTHER -> t

HasWide(t) == ReplaceWide(t, Primitive("i32")) # t
\* Everything but the wide-numeric fields converts.
ValidBesidesWide(c, t) == datatype(c, ReplaceWide(t, Primitive("i32"))).ok

\* C8, the wide-numeric policy law: an Object or Enum that holds a
\* wide-numeric field at any depth, and is valid otherwise, converts under
\* String, Number and BigInt to the text it would have with `string`,
\* `number` and `BigInt` written at that field; under Fail it fails with root
\* cause BigIntForbidden and under FailWithReason(m) with root cause Other(m).
C8_WideNumericPolicy ==
    Converted /\ inner.kind \in {"Object", "Enum"}
    /\ HasWide(inner) /\ ValidBesidesWide(conf, inner) =>
      CASE conf.bigint.kind = "String" ->
             result = datatype(conf, ReplaceWide(inner, Primitive("String")))
        [] conf.bigint.kind = "Number" ->
             result = datatype(conf, ReplaceWide(inner, Primitive("i32")))
        [] conf.bigint.kind = "BigInt" ->
             result = datatype(conf, ReplaceWide(inner, Reference("BigInt", <<>>)))
        [] conf.bigint.kind = "Fail" ->
             ~result.ok /\ RootCause(result.err) = BigIntForbidden
        [] conf.bigint.kind = "FailWithReason" ->
             ~result.ok /\ RootCause(result.err) = Other(conf.bigint.reason)

\* An Enum with a nullable wide-numeric field in a Named variant was
\* converted under the BigInt policy.
C8_Witness ==
    /\ Converted /\ inner.kind = "Enum" /\ conf.bigint.kind = "BigInt"
    /\ HasWide(inner) /\ result.ok
    /\ Contains(result.val, "a: BigInt | null")

(***************************************************************************)
(* C9                                                                      *)
(***************************************************************************)
WidgetWithClass ==
    /\ inner.kind = "Object" /\ inner.name = "Widget"
    /\ \E i \in 1..Len(inner.fields) :
          inner.fields[i].name = "class" /\ ~inner.fields[i].flatten
FieldTypesConvert ==
    \A i \in 1..Len(inner.fields) : datatype(conf, inner.fields[i].ty).ok

\* C9 as stated: sanitising the field name `class` of the Object `Widget`
\* returns the quoted key `"class"`, and the Object is written with it.
C9_ClassIsQuoted ==
    /\ call = "sanitise_name" /\ args = <<"Widget", "class">>
         => result = Ok("\"class\"")
    /\ Converted /\ WidgetWithClass /\ FieldTypesConvert
         => result.ok /\ Contains(result.val, "\"class\": ")

\* C9 as amended: sanitise_name returns ForbiddenFieldName(type, name) for a
\* reserved name such as `class` of `Widget`, in every context; it returns a
\* quoted key only for a name that is not reserved and not a bare identifier,
\* and any other name unchanged; so datatype on the Object `Widget` with a
\* non-flattened field `class` fails, and with
\* ForbiddenFieldName("Widget", "class") when the field types convert.
C9_ClassIsForbidden ==
    /\ call = "sanitise_name"
         => result = IF IsReserved(args[2])
                     THEN Err(ForbiddenFieldName(args[1], args[2]))
                     ELSE IF ValidIdent(args[2])
                          THEN Ok(args[2])
                          ELSE Ok("\"" \o args[2] \o "\"")
    /\ Converted /\ WidgetWithClass
         => /\ ~result.ok
            /\ FieldTypesConvert
                 => result = Err(ForbiddenFieldName("Widget", "class"))

\* `class` of `Widget` was sanitised.
C9_Witness ==
    /\ call = "sanitise_name" /\ args = <<"Widget", "class">>
    /\ result = Err(ForbiddenFieldName("Widget", "class"))

(***************************************************************************)
(* C10                                                                     *)
(***************************************************************************)
\* The cell of the emission table for representation r and variant v: N the
\* sanitised variant name, P the payload conversion, entries the conversions
\* of the variant's fields.
TableCell(r, v, N, P, entries) ==
    LET tagged == r.tag \o ": \"" \o N \o "\""
    IN  CASE r.kind = "Internal" ->
               (CASE v.shape = "Unit" -> "{ " \o tagged \o " }"
                  [] v.shape = "Unnamed" -> "({ " \o tagged \o " } & " \o P \o ")"
                  [] v.shape = "Named" ->
                       "{ " \o Join(<<tagged>> \o entries, "; ") \o " }")
          [] r.kind = "External" ->
               (IF v.shape = "Unit" THEN "\"" \o N \o "\""
                ELSE "{ " \o N \o ": " \o P \o " }")
          [] r.kind = "Untagged" ->
               (IF v.shape = "Unit" THEN "null" ELSE P)
          [] r.kind = "Adjacent" ->
               (IF v.shape = "Unit" THEN "{ " \o tagged \o " }"
                ELSE "{ " \o tagged \o "; " \o r.content \o ": " \o P \o " }")

\* The parts of the cell, each a Result; the payload of a Unit variant and
\* the fields of a variant that is not Named are empty.
CellName(t, v) == sanitise_name(t.name, VariantName(v))
CellPayload(c, v) ==
    IF v.shape = "Unit" THEN Ok("") ELSE datatype(c, VariantDataType(v))
CellEntries(c, t, v) ==
    IF v.shape = "Named"
    THEN [i \in 1..Len(v.obj.fields) |-> object_field_to_ts(c, t.name, v.obj.fields[i])]
    ELSE <<>>
\* What the cell reads: the name, and the fields of an internally tagged
\* Named variant, the payload of any other.
CellConverts(c, t, v) ==
    /\ CellName(t, v).ok
    /\ IF t.repr.kind = "Internal" /\ v.shape = "Named"
       THEN \A i \in 1..Len(v.obj.fields) : CellEntries(c, t, v)[i].ok
       ELSE CellPayload(c, v).ok
CellText(c, t, v) ==
    TableCell(t.repr, v, CellName(t, v).val,
              IF t.repr.kind = "Internal" /\ v.shape = "Named"
              THEN "" ELSE CellPayload(c, v).val,
              IF t.repr.kind = "Internal" /\ v.shape = "Named"
              THEN [i \in 1..Len(v.obj.fields) |-> CellEntries(c, t, v)[i].val]
              ELSE <<>>)

\* C10, the enum emission table: datatype on an Enum without variants returns
\* `never`; otherwise it succeeds when every cell converts, and returns the
\* cells of the variants, in declaration order, joined by ` | `.
C10_EnumTable ==
    Converted /\ inner.kind = "Enum" =>
      IF Len(inner.variants) = 0 THEN result = Ok("never")
      ELSE /\ result.ok <=> \A i \in 1..Len(inner.variants) :
                               CellConverts(conf, inner, inner.variants[i])
           /\ result.ok =>
                result.val = Join([i \in 1..Len(inner.variants) |->
                                      CellText(conf, inner, inner.variants[i])],
                                  " | ")

\* An externally tagged Enum with an Unnamed and a Unit variant was
\* converted, as in scenario B.
C10_Witness ==
    /\ Converted /\ inner.kind = "Enum" /\ inner.repr = External
    /\ Len(inner.variants) = 2
    /\ result = Ok("{ A: number } | \"B\"")

(***************************************************************************)
(* C11                                                                     *)
(***************************************************************************)
\* Piece (a): the parenthesised emissions of the flattened fields among
\* fields, in declaration order.
RECURSIVE FlattenedPieces(_, _)
FlattenedPieces(c, fields) ==
    IF Len(fields) = 0 THEN <<>>
    ELSE (IF Head(fields).flatten
          THEN <<"(" \o datatype(c, Head(fields).ty).val \o ")">>
          ELSE <<>>)
         \o FlattenedPieces(c, Tail(fields))

\* The entry of a non-flattened field f of the Object named N: its sanitised
\* key, `?` after the key of an optional field, and its type, with ` | null`
\* after the type of an optional field that is not Nullable.
LiteralEntry(c, N, f) ==
    sanitise_name(N, f.name).val
    \o (IF f.optional THEN "?" ELSE "")
    \o ": " \o datatype(c, f.ty).val
    \o (IF f.optional /\ f.ty.kind # "Nullable" THEN " | null" ELSE "")

\* The entries of piece (b): the non-flattened fields among fields, in
\* declaration order.
RECURSIVE LiteralEntries(_, _, _)
LiteralEntries(c, N, fields) ==
    IF Len(fields) = 0 THEN <<>>
    ELSE (IF Head(fields).flatten THEN <<>>
          ELSE <<LiteralEntry(c, N, Head(fields))>>)
         \o LiteralEntries(c, N, Tail(fields))

\* Piece (b): the one object literal, the tag entry last; absent when there
\* is no non-flattened field and no tag.
ObjectLiteral(c, t) ==
    LET entries == LiteralEntries(c, t.name, t.fields)
                   \o (IF t.tag.some
                       THEN <<t.tag.val \o ": \"" \o t.name \o "\"">>
                       ELSE <<>>)
    IN  IF Len(entries) = 0 THEN <<>>
        ELSE <<"{ " \o Join(entries, "; ") \o " }">>

\* What the Object arm reads: the type of every field, and the name of every
\* non-flattened field.
FieldsConvert(c, t) ==
    \A i \in 1..Len(t.fields) :
       /\ datatype(c, t.fields[i].ty).ok
       /\ t.fields[i].flatten \/ sanitise_name(t.name, t.fields[i].name).ok

\* C11, the Object emission shape: datatype on an Object without fields
\* returns `null`; otherwise it succeeds when every field converts, and
\* returns the parenthesised emissions of the flattened fields in declaration
\* order, then one object literal with the non-flattened fields in
\* declaration order and the tag entry last, joined by ` & `; the literal,
\* which is what the output then ends with, is present exactly when there is
\* a non-flattened field or a tag.
C11_ObjectShape ==
    Converted /\ inner.kind = "Object" =>
      IF Len(inner.fields) = 0 THEN result = Ok("null")
      ELSE /\ result.ok <=> FieldsConvert(conf, inner)
           /\ result.ok =>
                /\ result.val = Join(FlattenedPieces(conf, inner.fields)
                                       \o ObjectLiteral(conf, inner), " & ")
                /\ EndsWith(result.val, " }") <=>
                      \/ inner.tag.some
                      \/ \E i \in 1..Len(inner.fields) : ~inner.fields[i].flatten

\* A tagged Object whose second field is flattened and whose first is not
\* was converted: the flattened piece comes first, the tag entry last.
C11_Witness ==
    /\ Converted /\ inner.kind = "Object" /\ inner.tag = Some("kind")
    /\ Len(inner.fields) = 2
    /\ ~inner.fields[1].flatten /\ inner.fields[2].flatten
    /\ result = Ok("(string) & { w: string; kind: \"Widget\" }")

(***************************************************************************)
(* C12                                                                     *)
(***************************************************************************)
\* `<G1, G2, ...>` for a non-empty generic parameter list, nothing for an
\* empty one.
RECURSIVE ParameterList(_)
ParameterList(G) ==
    IF Len(G) = 0 THEN ""
    ELSE IF Len(G) = 1 THEN "<" \o G[1] \o ">"
    ELSE LET rest == ParameterList(Tail(G))
         IN  "<" \o G[1] \o ", " \o SubSeq(rest, 2, Len(rest))

\* The comment block the configuration writes for the comments of d: what
\* its formatter, when it has one, returns for them.
CommentBlock(c, d) ==
    IF c.comment_exporter = None THEN ""
    ELSE c.comment_exporter.val[d.comments]

\* C12, the declaration form: every successful export of an Object, Enum or
\* Tuple returns the comment block, then `export type Name<G1, G2, ...> =
\* Body`, Body being datatype(inner), with the generic parameter list written
\* whenever it is not empty, whatever the kind of the node and the number of
\* its fields.
C12_DeclarationForm ==
    Exported /\ Declarable(inner) /\ result.ok =>
      result.val = CommentBlock(conf, def) \o "export type " \o inner.name
                   \o ParameterList(inner.generics) \o " = "
                   \o datatype(conf, inner).val

====
